---- MODULE Spec2Model ----
(***************************************************************************)
(* Model of the multiplayer shooter client (src/main.go, package player)   *)
(* and of the relay it talks to.                                           *)
(*                                                                         *)
(* Coordinates are integers: every position the model produces is an       *)
(* integer, on which the float64 arithmetic of the program is exact.       *)
(* Angles are whole degrees; Cos80/Sin80 tabulate BulletSpeed*cos and      *)
(* BulletSpeed*sin rounded to the nearest integer.                         *)
(***************************************************************************)
EXTENDS Integers, Sequences, FiniteSets, TLC

\* ------------------------------------------------------------------ bounds
MaxQueue   == 1      \* frames a connection buffers before a write blocks
MaxWalk    == 1      \* distance a player walks from its spawn point
MaxBullets == 2      \* live bullets a tick of SpecHit may leave in the collection
NetBullets == 0      \* live bullets a tick of Spec may leave in the collection
MaxDebt    == 40     \* depth below zero at which inbound hits on the local player stop

\* ------------------------------------------------------- program constants
ScreenWidth   == 1600
ScreenHeight  == 900
MaxHealth     == 100
PlayerSpeed   == 1
BulletSpeed   == 80
ShootCooldown == 200      \* milliseconds
LocalDamage   == 50       \* subtracted by the shooter from its own record
HitDamage     == 20       \* carried by the player_hit the shooter emits

\* Size of the player sprite (an image asset, not part of the sources).
SpriteDx == 800
SpriteDy == 720

\* The two clients of the model, named by their player ids (os.Args[1]).
\* "111" is also the id of one of the records main() puts in the map.
Peers == {"111", "p2"}

Other(p) == CHOOSE q \in Peers : q # p

\* The connections the relay can hold: those of the two clients and of a
\* third one, "p3", that only the relay's own runs use.
Conns == Peers \cup {"p3"}

SpawnX == ScreenWidth \div 2
SpawnY == ScreenHeight \div 2

Max(a, b) == IF a > b THEN a ELSE b
Min(a, b) == IF a < b THEN a ELSE b

\* --------------------------------------------------------------- geometry
Line(x1, y1, x2, y2) == [X1 |-> x1, Y1 |-> y1, X2 |-> x2, Y2 |-> y2]

Rect(x, y, w, h) ==
    << Line(x, y, x, y + h),
       Line(x, y + h, x + w, y + h),
       Line(x + w, y + h, x + w, y),
       Line(x + w, y, x, y) >>

\* num/den lies strictly between 0 and 1  (den # 0)
InUnitOpen(num, den) ==
    IF den > 0 THEN 0 < num /\ num < den
               ELSE den < num /\ num < 0

\* num/den lies in the closed range [0,1]  (den # 0)
InUnit(num, den) ==
    IF den > 0 THEN 0 <= num /\ num <= den
               ELSE den <= num /\ num <= 0

\* Intersection(l1, l2): the success flag of the parametric test, with the
\* numerators and the denominator it is computed from.
Intersection(l1, l2) ==
    LET denom == (l1.X1 - l1.X2) * (l2.Y1 - l2.Y2) - (l1.Y1 - l1.Y2) * (l2.X1 - l2.X2)
        tNum  == (l1.X1 - l2.X1) * (l2.Y1 - l2.Y2) - (l1.Y1 - l2.Y1) * (l2.X1 - l2.X2)
        uNum  == 0 - ((l1.X1 - l1.X2) * (l1.Y1 - l2.Y1) - (l1.Y1 - l1.Y2) * (l1.X1 - l2.X1))
    IN  [ ok    |-> denom # 0 /\ InUnit(tNum, denom) /\ InUnit(uNum, denom),
          denom |-> denom, tNum |-> tNum, uNum |-> uNum ]

\* BulletSpeed*cos(a) and BulletSpeed*sin(a), a in whole degrees, rounded.
Cos80(a) ==
    CASE a = 0   -> 80  [] a = 2   -> 80  [] a = 358 -> 80
      [] a = 90  -> 0   [] a = 92  -> 0 - 3 [] a = 88  -> 3
      [] a = 180 -> 0 - 80 [] a = 182 -> 0 - 80 [] a = 178 -> 0 - 80
      [] a = 270 -> 0   [] a = 272 -> 3   [] a = 268 -> 0 - 3

Sin80(a) ==
    CASE a = 0   -> 0   [] a = 2   -> 3   [] a = 358 -> 0 - 3
      [] a = 90  -> 80  [] a = 92  -> 80  [] a = 88  -> 80
      [] a = 180 -> 0   [] a = 182 -> 0 - 3 [] a = 178 -> 3
      [] a = 270 -> 0 - 80 [] a = 272 -> 0 - 80 [] a = 268 -> 0 - 80

\* ----------------------------------------------------------------- player
NewPlayer(id, x, y) ==
    [ID |-> id, X |-> x, Y |-> y, Angle |-> 0, Health |-> MaxHealth, Bullets |-> <<>>]

\* The records main() puts in the map before the first tick.
npcs ==
    [id \in {"111", "112", "222", "223", "224", "333", "444"} |->
        CASE id = "111" -> NewPlayer(id, 900, 700)
          [] id = "112" -> NewPlayer(id, 900, 750)
          [] id = "222" -> NewPlayer(id, 600, 300)
          [] id = "223" -> NewPlayer(id, 690, 300)
          [] id = "224" -> NewPlayer(id, 730, 300)
          [] id = "333" -> NewPlayer(id, 100, 100)
          [] id = "444" -> NewPlayer(id, 1300, 300)]

HitBox(p) ==
    LET dx == SpriteDx \div 4
        dy == SpriteDy \div 4
    IN  [Walls |-> Rect(p.X - dx \div 2, p.Y - dy \div 2, dx, dy)]

\* Player.Shoot: the new bullet of player p, fired with the given recoil.
Shoot(p, angleRecoil) ==
    LET dir == (p.Angle + angleRecoil + 360) % 360
    IN  [ OwnerID   |-> p.ID,
          X         |-> p.X,
          Y         |-> p.Y,
          EndX      |-> p.X + Cos80(dir),
          EndY      |-> p.Y + Sin80(dir),
          Direction |-> dir,
          Velocity  |-> BulletSpeed ]

\* A Bullet.Update that advances along the x axis only.
BulletUpdateFlat(b) ==
    LET dx == Cos80(b.Direction)
    IN  [b EXCEPT !.X = @ + dx, !.EndX = @ + dx]

BulletUpdate(b) ==
    LET dx == Cos80(b.Direction)
        dy == Sin80(b.Direction)
    IN  [b EXCEPT !.X = @ + dx, !.Y = @ + dy, !.EndX = @ + dx, !.EndY = @ + dy]

OutOfBounds(b, width, height) ==
    b.X < 0 \/ b.X > width \/ b.Y < 0 \/ b.Y > height

BulletLine(b) == Line(b.X, b.Y, b.EndX, b.EndY)

\* Obstacles of the running game: main() builds the Game with an empty list.
obstacles == <<>>

circleRectCollision(cx, cy, radius, rect) ==
    LET closestX == Max(rect.X, Min(cx, rect.X + rect.Width))
        closestY == Max(rect.Y, Min(cy, rect.Y + rect.Height))
        dx == cx - closestX
        dy == cy - closestY
    IN  (dx * dx + dy * dy) < (radius * radius)

collidesWithObstacles(x, y, radius, obs) ==
    \E i \in 1..Len(obs) : circleRectCollision(x, y, radius, obs[i])

\* The keys held during a tick (sprint is left out: 1.7 is not an integer).
NoKeys == [W |-> FALSE, S |-> FALSE, A |-> FALSE, D |-> FALSE]

\* time.Since(lastShot) once dt more milliseconds have passed; every value
\* above ShootCooldown behaves alike, so the clock saturates there.
Elapsed(since, dt) == Min(since + dt, ShootCooldown + 1)

\* Bullets that Player.Update keeps: each one advanced, the ones that left
\* the playfield removed (the loop runs from the last index to the first,
\* which keeps the order of the others).
RECURSIVE UpdateBullets(_)
UpdateBullets(bs) ==
    IF bs = <<>> THEN <<>>
    ELSE LET b == BulletUpdate(Head(bs))
             rest == UpdateBullets(Tail(bs))
         IN  IF OutOfBounds(b, 1600, 900) THEN rest ELSE <<b>> \o rest

\* A trigger with no cooldown.
MayShootAtOnce(fire, now) == fire

\* The test before a shot: the button is pressed and the last shot is more
\* than ShootCooldown old.
MayShoot(fire, now) == fire /\ now > ShootCooldown

\* Player.Update(hitsObstacle) on player p whose last shot is `since` ms old
\* at the previous tick; in = [keys, aim, fire, recoil, dt].
PlayerUpdate(p, since, in, hitsObstacle) ==
    LET now == Elapsed(since, in.dt) IN
    IF p.Health <= 0 THEN [p |-> p, since |-> now, shot |-> FALSE]
    ELSE
      LET moveY == (IF in.keys.S THEN PlayerSpeed ELSE 0) - (IF in.keys.W THEN PlayerSpeed ELSE 0)
          moveX == (IF in.keys.D THEN PlayerSpeed ELSE 0) - (IF in.keys.A THEN PlayerSpeed ELSE 0)
          x1 == IF hitsObstacle THEN p.X ELSE p.X + moveX
          y1 == IF hitsObstacle THEN p.Y ELSE p.Y + moveY
          p1 == [p EXCEPT !.X = x1, !.Y = y1, !.Angle = in.aim]
          shoots == MayShoot(in.fire, now)
          bs == IF shoots THEN Append(p1.Bullets, Shoot(p1, in.recoil)) ELSE p1.Bullets
      IN  [ p     |-> [p1 EXCEPT !.Bullets = UpdateBullets(bs)],
            since |-> IF shoots THEN 0 ELSE now,
            shot  |-> shoots ]

\* ----------------------------------------------------------------- frames
PlayerHit(victim, damage) ==
    [type |-> "player_hit", data |-> [victim_id |-> victim, damage |-> damage]]

EncodeBullet(b) ==
    [ owner_id |-> b.OwnerID, x |-> b.X, y |-> b.Y, end_x |-> b.EndX,
      end_y |-> b.EndY, direction |-> b.Direction, velocity |-> b.Velocity ]

DecodeBullet(j) ==
    [ OwnerID |-> j.owner_id, X |-> j.x, Y |-> j.y, EndX |-> j.end_x,
      EndY |-> j.end_y, Direction |-> j.direction, Velocity |-> j.velocity ]

\* Game.sendPlayerUpdate: the frame written for local player p.
sendPlayerUpdate(p) ==
    [ type |-> "player_update",
      data |-> [ id |-> p.ID, x |-> p.X, y |-> p.Y, angle |-> p.Angle,
                 health |-> p.Health,
                 bullets |-> [i \in 1..Len(p.Bullets) |-> EncodeBullet(p.Bullets[i])] ] ]

\* ---------------------------------------------------------- hit detection
RemoveAt(s, i) == [k \in 1..(Len(s) - 1) |-> IF k < i THEN s[k] ELSE s[k + 1]]

SetMin(S) == CHOOSE x \in S : \A y \in S : x <= y

\* The walls, by index, that the segment l intersects.
Crossed(walls, l) == {k \in 1..Len(walls) : Intersection(walls[k], l).ok}

\* A variant for comparison with FirstOf: every wall of S, in order, as
\* an edge loop without the break would visit them.
RECURSIVE AllOf(_)
AllOf(S) == IF S = {} THEN <<>> ELSE << SetMin(S) >> \o AllOf(S \ {SetMin(S)})

\* The walls at which the body of the edge loop runs when the walls in S
\* intersect: the loop breaks at the first of them.
FirstOf(S) == IF S = {} THEN <<>> ELSE << SetMin(S) >>

HitEdges(other, b) == FirstOf(Crossed(HitBox(other).Walls, BulletLine(b)))

\* A variant for comparison with Damaged: the damage without the floor.
DamagedNoFloor(other, h) == [other EXCEPT !.Health = h]

\* The body of the edge loop on record `other`: damage, clamp, one
\* player_hit.  Returns the record, the frame sent and the log entry.
Damaged(other, h) == [other EXCEPT !.Health = IF h < 0 THEN 0 ELSE h]

LogEntry(tag, edge, other, other1, frame) ==
    [ bullet |-> tag, victim |-> other.ID, edge |-> edge,
      before |-> other.Health, after |-> other1.Health,
      damage |-> frame.data.damage ]

RECURSIVE ApplyEdges(_, _, _)
EdgeDone(st, es, tag, other1, frame) ==
    ApplyEdges([ other |-> other1,
                 out   |-> Append(st.out, frame),
                 log   |-> Append(st.log, LogEntry(tag, Head(es), st.other, other1, frame)) ],
               Tail(es), tag)

\* The edge loop, run for every wall in es.  st = [other, out, log].
ApplyEdges(st, es, tag) ==
    IF es = <<>> THEN st
    ELSE EdgeDone(st, es, tag, Damaged(st.other, st.other.Health - LocalDamage),
                  PlayerHit(st.other.ID, HitDamage))

\* The loop over the local bullets, from index i down to 1, against one
\* target.  st = [bullets, tags, other, out, log]; tags[k] is the index
\* bullets[k] had when hit detection started.
RECURSIVE BulletLoop(_, _)
BulletSpent(st, i, r) ==
    BulletLoop([ bullets |-> RemoveAt(st.bullets, i),
                 tags    |-> RemoveAt(st.tags, i),
                 other   |-> r.other,
                 out     |-> r.out,
                 log     |-> r.log ], i - 1)

BulletTest(st, i, es) ==
    IF es = <<>> THEN BulletLoop(st, i - 1)
    ELSE BulletSpent(st, i, ApplyEdges([other |-> st.other, out |-> st.out, log |-> st.log],
                                       es, st.tags[i]))

BulletLoop(st, i) ==
    IF i = 0 THEN st
    ELSE BulletTest(st, i, HitEdges(st.other, st.bullets[i]))

\* A variant for comparison with Skipped: only the records without health
\* are passed over.
SkippedDeadOnly(otherPlayer, localID) == otherPlayer.Health <= 0

\* The records the loop over the map passes over: those without health and
\* the one that carries the local player's id.
Skipped(otherPlayer, localID) ==
    otherPlayer.Health <= 0 \/ otherPlayer.ID = localID

\* The loop over the map, in the order the map iteration yields its keys.
\* st = [bullets, tags, players, out, log].
RECURSIVE TargetLoop(_, _, _)
TargetDone(st, localID, order, r) ==
    TargetLoop([ bullets |-> r.bullets,
                 tags    |-> r.tags,
                 players |-> [st.players EXCEPT ![Head(order)] = r.other],
                 out     |-> r.out,
                 log     |-> r.log ], localID, Tail(order))

TargetTest(st, localID, order, otherPlayer) ==
    IF Skipped(otherPlayer, localID)
    THEN TargetLoop(st, localID, Tail(order))
    ELSE TargetDone(st, localID, order,
                    BulletLoop([ bullets |-> st.bullets, tags |-> st.tags,
                                 other |-> otherPlayer, out |-> st.out,
                                 log |-> st.log ], Len(st.bullets)))

TargetLoop(st, localID, order) ==
    IF order = <<>> THEN st
    ELSE TargetTest(st, localID, order, st.players[Head(order)])

\* What hit detection leaves: the game, the frames sent, the damage log.
Collided(g, r) ==
    [ g   |-> [g EXCEPT !.player.Bullets = r.bullets, !.players = r.players],
      out |-> r.out,
      log |-> r.log ]

\* Game.checkBulletCollisions on game g = [player, players, since], the
\* map iterated in the given order.
checkBulletCollisions(g, order) ==
    Collided(g, TargetLoop([ bullets |-> g.player.Bullets,
                             tags    |-> [k \in 1..Len(g.player.Bullets) |-> k],
                             players |-> g.players,
                             out     |-> <<>>,
                             log     |-> <<>> ], g.player.ID, order))

\* The targets the loop can act on: not passed over, and with a hit box
\* some local bullet's line intersects.  A target outside this set
\* changes nothing wherever the map iteration places it.
Hot(g) ==
    { id \in DOMAIN g.players :
        /\ ~Skipped(g.players[id], g.player.ID)
        /\ \E i \in 1..Len(g.player.Bullets) :
              Crossed(HitBox(g.players[id]).Walls, BulletLine(g.player.Bullets[i])) # {} }

RECURSIVE Perms(_)
Perms(S) ==
    IF S = {} THEN { <<>> }
    ELSE UNION { { <<x>> \o s : s \in Perms(S \ {x}) } : x \in S }

\* The orders in which the map iteration can reach the targets of Hot(g).
Orders(g) == Perms(Hot(g))

\* Game.Update up to the call of Player.Update: [g, shot].
Moved(g, pu) ==
    [ g |-> [g EXCEPT !.player = pu.p, !.since = pu.since], shot |-> pu.shot ]

\* Game.Update up to hit detection, on a game whose obstacle list is obs.
MoveAmong(g, in, obs) ==
    Moved(g, PlayerUpdate(g.player, g.since, in,
                          collidesWithObstacles(g.player.X, g.player.Y, 10, obs)))

MovePlayer(g, in) == MoveAmong(g, in, obstacles)

\* Game.Update from hit detection on.  Returns the game after the tick, the
\* game hit detection started from, the frames written (every player_hit,
\* then the player_update), and the log of the damage applications.
\* A tick that writes its player_update before its player_hit frames.
SentUpdateFirst(mid, cb) ==
    [ g    |-> cb.g,
      mid  |-> mid.g,
      out  |-> <<sendPlayerUpdate(cb.g.player)>> \o cb.out,
      log  |-> cb.log,
      shot |-> mid.shot ]

Sent(mid, cb) ==
    [ g    |-> cb.g,
      mid  |-> mid.g,
      out  |-> Append(cb.out, sendPlayerUpdate(cb.g.player)),
      log  |-> cb.log,
      shot |-> mid.shot ]

Collide(mid, order) == Sent(mid, checkBulletCollisions(mid.g, order))

\* Game.Update: one simulation tick.
GameUpdate(g, in, order) == Collide(MovePlayer(g, in), order)

\* ------------------------------------------------------------------ merge
Upsert(m, k, v) == [id \in DOMAIN m \cup {k} |-> IF id = k THEN v ELSE m[id]]

\* Variants of the player_update case, for comparison with MergeUpdate:
\* one that adds the payload's projectiles to the record's, one that keeps
\* the health of a record it already holds, one without the test of the
\* local id.
DecodeBullets(js) == [i \in 1..Len(js) |-> DecodeBullet(js[i])]

Patched(p, update, health, bullets) ==
    [p EXCEPT !.X = update.x, !.Y = update.y, !.Angle = update.angle,
              !.Health = health, !.Bullets = bullets]

MergeUpdateAppending(g, update) ==
    IF update.id = g.player.ID THEN g
    ELSE IF update.id \in DOMAIN g.players
         THEN [g EXCEPT !.players[update.id] =
                  Patched(@, update, update.health, @.Bullets \o DecodeBullets(update.bullets))]
         ELSE [g EXCEPT !.players = Upsert(g.players, update.id,
                  Patched(NewPlayer(update.id, update.x, update.y), update, update.health,
                          DecodeBullets(update.bullets)))]

MergeUpdateKeepingHealth(g, update) ==
    IF update.id = g.player.ID THEN g
    ELSE IF update.id \in DOMAIN g.players
         THEN [g EXCEPT !.players[update.id] =
                  Patched(@, update, @.Health, DecodeBullets(update.bullets))]
         ELSE [g EXCEPT !.players = Upsert(g.players, update.id,
                  Patched(NewPlayer(update.id, update.x, update.y), update, update.health,
                          DecodeBullets(update.bullets)))]

MergeUpdateOfAnyId(g, update) ==
    [g EXCEPT !.players = Upsert(g.players, update.id,
        Patched(IF update.id \in DOMAIN g.players THEN g.players[update.id]
                ELSE NewPlayer(update.id, update.x, update.y),
                update, update.health, DecodeBullets(update.bullets)))]

\* The player_update case of listenForUpdates.
MergeUpdate(g, update) ==
    IF update.id = g.player.ID THEN g
    ELSE LET p == IF update.id \in DOMAIN g.players THEN g.players[update.id]
                  ELSE NewPlayer(update.id, update.x, update.y)
             p1 == [p EXCEPT !.X = update.x, !.Y = update.y, !.Angle = update.angle,
                             !.Health = update.health,
                             !.Bullets = [i \in 1..Len(update.bullets) |->
                                             DecodeBullet(update.bullets[i])]]
         IN  [g EXCEPT !.players = Upsert(g.players, update.id, p1)]

\* Variants of the player_hit case, for comparison with MergeHit: one that
\* sets the victim's health to MaxHealth less the damage, one that damages
\* the local player only when no record is keyed by the victim's id.
MergeHitAbsolute(g, hit) ==
    IF hit.victim_id \in DOMAIN g.players
    THEN IF hit.victim_id = g.player.ID
         THEN [g EXCEPT !.players[hit.victim_id].Health = MaxHealth - hit.damage,
                        !.player.Health = MaxHealth - hit.damage]
         ELSE [g EXCEPT !.players[hit.victim_id].Health = MaxHealth - hit.damage]
    ELSE IF hit.victim_id = g.player.ID
         THEN [g EXCEPT !.player.Health = MaxHealth - hit.damage]
         ELSE g

MergeHitEither(g, hit) ==
    IF hit.victim_id \in DOMAIN g.players
    THEN [g EXCEPT !.players[hit.victim_id].Health =
                      IF @ - hit.damage < 0 THEN 0 ELSE @ - hit.damage]
    ELSE IF hit.victim_id = g.player.ID
         THEN [g EXCEPT !.player.Health = @ - hit.damage]
         ELSE g

\* A player_hit case that takes a record out of the map when its health
\* reaches 0.
MergeHitRemoving(g, hit) ==
    IF hit.victim_id \in DOMAIN g.players /\ g.players[hit.victim_id].Health <= hit.damage
    THEN [g EXCEPT !.players = [id \in DOMAIN g.players \ {hit.victim_id} |-> g.players[id]]]
    ELSE MergeHitEither(g, hit)

\* A player_hit case that takes the damage off the local player whoever
\* the victim is.
MergeHitAny(g, hit) ==
    [MergeHitEither(g, hit) EXCEPT !.player.Health = g.player.Health - hit.damage]

\* The player_hit case of listenForUpdates.
MergeHit(g, hit) ==
    LET g1 == IF hit.victim_id \in DOMAIN g.players
              THEN LET h == g.players[hit.victim_id].Health - hit.damage
                   IN  [g EXCEPT !.players[hit.victim_id].Health = IF h < 0 THEN 0 ELSE h]
              ELSE g
    IN  IF hit.victim_id = g1.player.ID
        THEN [g1 EXCEPT !.player.Health = @ - hit.damage]
        ELSE g1

\* One iteration of the listener's loop on a decoded frame.
\* A line is a record: an envelope has the fields type and data, a line
\* that is not JSON has the field junk; a payload is the record of its
\* fields, or, when it is no JSON object, a record with the field kind.
\* json.Unmarshal of the line into Event and of event.Data into the payload
\* struct succeed on the former only.
EnvelopeOk(line) == "junk" \notin DOMAIN line

PayloadOk(data) == "kind" \notin DOMAIN data

\* The frames the listener merges: the others are logged and passed over.
Decodes(frame) ==
    /\ EnvelopeOk(frame)
    /\ frame.type \in {"player_update", "player_hit"}
    /\ PayloadOk(frame.data)

Merge(g, frame) ==
    IF ~Decodes(frame) THEN g
    ELSE CASE frame.type = "player_update" -> MergeUpdate(g, frame.data)
           [] frame.type = "player_hit"    -> MergeHit(g, frame.data)

\* ------------------------------------------------------------------ state
VARIABLES
    game,       \* game[p] = [player, players, since]: the Game of client p
    pending,    \* pending[p]: frames the running tick of p has still to write;
                \* p's tick holds g.mu exactly while pending[p] is not empty
    inbox,      \* inbox[p]: the frame p's listener has read and not yet merged
    toRelay,    \* toRelay[p]: frames client p wrote, not yet read by the relay
    toClient,   \* toClient[p]: frames the relay wrote to p, not yet read by p
    clients,    \* the relay's client set
    rmsg,       \* rmsg[p]: the frame the relay's reader of p holds
    rmu,        \* the reader that holds the relay's mutex, or "none"
    rleft,      \* the clients the holder has still to write its frame to
    last,       \* the merge observed last: the client, the frame merged and
                \* the frame merged before it (kept by SpecMerge only)
    draw,       \* draw[p]: where Game.Draw of client p is: "idle", or in
                \* its loop over the local "bullets" or over the "players"
    call        \* a call of one function on its own: the function, its
                \* arguments and, once it has returned, its result

vars == <<game, pending, inbox, toRelay, toClient, clients, rmsg, rmu, rleft, last, draw, call>>

NoFrame == [type |-> "none"]

\* The end of a stream: what a read returns as an error once the connection
\* is broken and the frames written before the break have been read.
Eof == [type |-> "eof"]

\* What a reader that has returned holds: it reads no more.
Gone == [type |-> "gone"]

Step(op, p, frame, prior) == [op |-> op, peer |-> p, frame |-> frame, prior |-> prior]

NewGame(playerID) ==
    [ player  |-> NewPlayer(playerID, ScreenWidth \div 2, ScreenHeight \div 2),
      players |-> npcs,
      since   |-> ShootCooldown + 1 ]

\* No function is called on its own.
NoCall == [fn |-> "none", in |-> <<>>, done |-> TRUE, out |-> <<>>]

\* The call of fn on the arguments in, before it has returned.
Call(fn, in) == [fn |-> fn, in |-> in, done |-> FALSE, out |-> <<>>]

\* The clients of the set connected have started and connected to the relay.
Started(connected) ==
    /\ game = [p \in Conns |-> NewGame(p)]
    /\ pending = [p \in Conns |-> <<>>]
    /\ inbox = [p \in Conns |-> NoFrame]
    /\ toRelay = [p \in Conns |-> <<>>]
    /\ toClient = [p \in Conns |-> <<>>]
    /\ clients = connected
    /\ rmsg = [p \in Conns |-> NoFrame]
    /\ rmu = "none"
    /\ rleft = {}
    /\ last = Step("init", "none", NoFrame, NoFrame)
    /\ draw = [p \in Conns |-> "idle"]

InitWith(connected) == Started(connected) /\ call = NoCall

\* Both clients have connected to the relay.
Init == InitWith(Peers)

\* ---------------------------------------------------------------- actions
Abs(a) == IF a < 0 THEN 0 - a ELSE a

\* The connection of client p is broken: its listener's read has failed or
\* will fail once the frames before the break are read.
Broken(p) ==
    \/ inbox[p] = Gone
    \/ \E i \in 1..Len(toClient[p]) : toClient[p][i] = Eof

\* Game.Update of client p up to its first write, r being what the tick
\* computes: the lock is taken, the player and the bullets are updated,
\* hits are detected, and the frames of the tick are queued for writing in
\* the order they are sent.
CanTick(p) == (p \in clients \/ Broken(p)) /\ pending[p] = <<>>

TickBegin(p, r, cap) ==
    /\ CanTick(p)
    /\ Abs(r.g.player.X - SpawnX) <= MaxWalk
    /\ Abs(r.g.player.Y - SpawnY) <= MaxWalk
    /\ Len(r.g.player.Bullets) <= cap
    /\ game' = [game EXCEPT ![p] = r.g]
    /\ pending' = [pending EXCEPT ![p] = r.out]
    /\ UNCHANGED <<inbox, toRelay, toClient, clients, rmsg, rmu, rleft, last, draw, call>>

\* The inputs of a tick: keys held, aim, fire button, recoil of a shot
\* and milliseconds since the previous tick.
Inputs(keySet, aims, fires, recoils, dts) ==
    [keys : keySet, aim : aims, fire : fires, recoil : recoils, dt : dts]

\* A tick of p under any input of ins that leaves at most cap live bullets,
\* the map iterated in any order.
Tick(p, ins, cap) ==
    /\ CanTick(p)
    /\ \E in \in ins :
          \E mid \in {MovePlayer(game[p], in)} :
              \E order \in Orders(mid.g) :
                  \E r \in {Collide(mid, order)} : TickBegin(p, r, cap)

\* conn.Write of the next frame of p's tick; the write blocks while the
\* connection's buffer is full.  The lock is released after the last frame.
TickWrite(p) ==
    /\ pending[p] # <<>>
    /\ ~Broken(p)
    /\ Len(toRelay[p]) < MaxQueue
    /\ toRelay' = [toRelay EXCEPT ![p] = Append(@, Head(pending[p]))]
    /\ pending' = [pending EXCEPT ![p] = Tail(@)]
    /\ UNCHANGED <<game, inbox, toClient, clients, rmsg, rmu, rleft, last, draw, call>>

\* conn.Write on a broken connection: the error is logged, the frame is
\* lost and the tick goes on.
TickWriteFail(p) ==
    /\ pending[p] # <<>>
    /\ Broken(p)
    /\ pending' = [pending EXCEPT ![p] = Tail(@)]
    /\ UNCHANGED <<game, inbox, toRelay, toClient, clients, rmsg, rmu, rleft, last, draw, call>>

\* A listener that logs its read error and goes on reading.
ListenFailRetry(p) ==
    /\ inbox[p] = NoFrame
    /\ toClient[p] # <<>>
    /\ Head(toClient[p]) = Eof
    /\ toClient' = [toClient EXCEPT ![p] = Tail(@)]
    /\ UNCHANGED <<game, pending, inbox, toRelay, clients, rmsg, rmu, rleft, last, draw, call>>

\* The read of p's listener fails: the listener returns.
ListenFail(p) ==
    /\ inbox[p] = NoFrame
    /\ toClient[p] # <<>>
    /\ Head(toClient[p]) = Eof
    /\ inbox' = [inbox EXCEPT ![p] = Gone]
    /\ toClient' = [toClient EXCEPT ![p] = Tail(@)]
    /\ UNCHANGED <<game, pending, toRelay, clients, rmsg, rmu, rleft, last, draw, call>>

\* A listener that reads ahead: holding a frame it has not merged yet, it
\* takes the next one and merges that first.
ListenReadAhead(p) ==
    /\ toClient[p] # <<>>
    /\ Head(toClient[p]) # Eof
    /\ inbox[p] # Gone
    /\ inbox' = [inbox EXCEPT ![p] = Head(toClient[p])]
    /\ toClient' = [toClient EXCEPT ![p] =
                        IF inbox[p] = NoFrame THEN Tail(@) ELSE <<inbox[p]>> \o Tail(@)]
    /\ UNCHANGED <<game, pending, toRelay, clients, rmsg, rmu, rleft, last, draw, call>>

\* The listener of p reads and decodes the next frame.
ListenRead(p) ==
    /\ inbox[p] = NoFrame
    /\ toClient[p] # <<>>
    /\ Head(toClient[p]) # Eof
    /\ inbox' = [inbox EXCEPT ![p] = Head(toClient[p])]
    /\ toClient' = [toClient EXCEPT ![p] = Tail(@)]
    /\ UNCHANGED <<game, pending, toRelay, clients, rmsg, rmu, rleft, last, draw, call>>

\* The frames whose merge takes g.mu: a player_update of another id and
\* every player_hit.
TakesLock(p, frame) ==
    /\ Decodes(frame)
    /\ \/ frame.type = "player_update" /\ frame.data.id # game[p].player.ID
       \/ frame.type = "player_hit"

\* A listener that returns on a frame it cannot decode.
ListenMergeOrReturn(p) ==
    /\ inbox[p] \notin {NoFrame, Gone}
    /\ TakesLock(p, inbox[p]) => pending[p] = <<>>
    /\ game' = [game EXCEPT ![p] = Merge(@, inbox[p])]
    /\ inbox' = [inbox EXCEPT ![p] = IF Decodes(inbox[p]) THEN NoFrame ELSE Gone]
    /\ UNCHANGED <<pending, toRelay, toClient, clients, rmsg, rmu, rleft, draw, call>>

\* The listener of p merges the frame it has read.
ListenMerge(p) ==
    /\ inbox[p] \notin {NoFrame, Gone}
    /\ TakesLock(p, inbox[p]) => pending[p] = <<>>
    /\ game' = [game EXCEPT ![p] = Merge(@, inbox[p])]
    /\ inbox' = [inbox EXCEPT ![p] = NoFrame]
    /\ UNCHANGED <<pending, toRelay, toClient, clients, rmsg, rmu, rleft, draw, call>>

\* What a merge leaves in `last`.
ObserveMerge(p) == last' = Step("merge", p, inbox[p], last.frame)

\* The relay's reader of p reads one frame.
RelayRead(p) ==
    /\ p \in clients
    /\ rmsg[p] = NoFrame
    /\ toRelay[p] # <<>>
    /\ rmsg' = [rmsg EXCEPT ![p] = Head(toRelay[p])]
    /\ toRelay' = [toRelay EXCEPT ![p] = Tail(@)]
    /\ UNCHANGED <<game, pending, inbox, toClient, clients, rmu, rleft, last, draw, call>>

\* The clients a frame read from c is written to: every registered client
\* but c itself.
FanOutEcho(registered, c) == registered

FanOut(registered, c) == registered \ {c}

\* A reader that does not wait for the mutex: it starts its fan-out while
\* another reader is in the middle of its own, which that one starts again
\* afterwards.
RelayLockBarging(p) ==
    /\ rmsg[p] \notin {NoFrame, Eof, Gone}
    /\ rmu # p
    /\ IF FanOut(clients, p) = {}
       THEN /\ rmsg' = [rmsg EXCEPT ![p] = NoFrame]
            /\ UNCHANGED <<rmu, rleft>>
       ELSE /\ rmu' = p
            /\ rleft' = FanOut(clients, p)
            /\ UNCHANGED rmsg
    /\ UNCHANGED <<game, pending, inbox, toRelay, toClient, clients, last, draw, call>>

\* The reader of p takes the relay's mutex to fan its frame out; with no
\* other client registered the loop ends at once and the mutex is released.
RelayLock(p) ==
    /\ rmsg[p] \notin {NoFrame, Eof, Gone}
    /\ rmu = "none"
    /\ IF FanOut(clients, p) = {}
       THEN /\ rmsg' = [rmsg EXCEPT ![p] = NoFrame]
            /\ UNCHANGED <<rmu, rleft>>
       ELSE /\ rmu' = p
            /\ rleft' = FanOut(clients, p)
            /\ UNCHANGED rmsg
    /\ UNCHANGED <<game, pending, inbox, toRelay, toClient, clients, last, draw, call>>

\* The holder writes its frame to client c; the mutex is released after the
\* last client.
RelayWrite(p, c) ==
    /\ rmu = p
    /\ c \in rleft
    /\ ~Broken(c)
    /\ Len(toClient[c]) < MaxQueue
    /\ toClient' = [toClient EXCEPT ![c] = Append(@, rmsg[p])]
    /\ rleft' = rleft \ {c}
    /\ IF rleft = {c}
       THEN rmu' = "none" /\ rmsg' = [rmsg EXCEPT ![p] = NoFrame]
       ELSE UNCHANGED <<rmu, rmsg>>
    /\ UNCHANGED <<game, pending, inbox, toRelay, clients, last, draw, call>>

\* A failed write that ends the loop and gives the mutex back.
RelayWriteAbort(p, c) ==
    /\ rmu = p
    /\ c \in rleft
    /\ Broken(c)
    /\ rleft' = {}
    /\ rmu' = "none"
    /\ rmsg' = [rmsg EXCEPT ![p] = NoFrame]
    /\ UNCHANGED <<game, pending, inbox, toRelay, toClient, clients, last, draw, call>>

\* The holder's write to client c fails on c's broken connection: the error
\* is logged and the loop over the clients goes on.
RelayWriteFail(p, c) ==
    /\ rmu = p
    /\ c \in rleft
    /\ Broken(c)
    /\ rleft' = rleft \ {c}
    /\ IF rleft = {c}
       THEN rmu' = "none" /\ rmsg' = [rmsg EXCEPT ![p] = NoFrame]
       ELSE UNCHANGED <<rmu, rmsg>>
    /\ UNCHANGED <<game, pending, inbox, toRelay, toClient, clients, last, draw, call>>

\* A reader that returns on its read error and leaves p registered.
RelayDropKeeping(p) ==
    /\ rmsg[p] = Eof
    /\ rmu = "none"
    /\ rmsg' = [rmsg EXCEPT ![p] = Gone]
    /\ UNCHANGED <<game, pending, inbox, toRelay, toClient, clients, rmu, rleft, last, draw, call>>

\* The read of the relay's reader of p has failed: the reader takes the
\* mutex, removes p from the client set and returns.
RelayDrop(p) ==
    /\ rmsg[p] = Eof
    /\ rmu = "none"
    /\ clients' = clients \ {p}
    /\ rmsg' = [rmsg EXCEPT ![p] = Gone]
    /\ UNCHANGED <<game, pending, inbox, toRelay, toClient, rmu, rleft, last, draw, call>>

\* The connection between client p and the relay breaks: after the frames
\* in flight, both ends read an error.
Break(p) ==
    /\ p \in clients
    /\ ~Broken(p)
    /\ toRelay' = [toRelay EXCEPT ![p] = Append(@, Eof)]
    /\ toClient' = [toClient EXCEPT ![p] = Append(@, Eof)]
    /\ UNCHANGED <<game, pending, inbox, clients, rmsg, rmu, rleft, last, draw, call>>

\* Game.Draw, called by the game loop between two ticks: it takes no lock.
\* It starts with the loop over the local player's projectiles,
DrawBegin(p) ==
    /\ p \in clients \/ Broken(p)
    /\ pending[p] = <<>>
    /\ draw[p] = "idle"
    /\ draw' = [draw EXCEPT ![p] = "bullets"]
    /\ UNCHANGED <<game, pending, inbox, toRelay, toClient, clients, rmsg, rmu, rleft, last, call>>

\* goes on to the loop over the map and each record's projectiles,
DrawPlayers(p) ==
    /\ draw[p] = "bullets"
    /\ draw' = [draw EXCEPT ![p] = "players"]
    /\ UNCHANGED <<game, pending, inbox, toRelay, toClient, clients, rmsg, rmu, rleft, last, call>>

\* and returns after the laser, the shadows and the local player.
DrawEnd(p) ==
    /\ draw[p] = "players"
    /\ draw' = [draw EXCEPT ![p] = "idle"]
    /\ UNCHANGED <<game, pending, inbox, toRelay, toClient, clients, rmsg, rmu, rleft, last, call>>

\* A frame of a peer outside the model reaches the connection of client p.
\* Hits on the local player stop once its health is MaxDebt below zero.
Inject(p, f) ==
    /\ p \in clients
    /\ Len(toClient[p]) < MaxQueue
    /\ (Decodes(f) /\ f.type = "player_hit" /\ f.data.victim_id = game[p].player.ID)
          => game[p].player.Health > 0 - MaxDebt
    /\ toClient' = [toClient EXCEPT ![p] = Append(@, f)]
    /\ UNCHANGED <<game, pending, inbox, toRelay, clients, rmsg, rmu, rleft, last, draw, call>>

\* Steps that continue an operation under way and can run now.
CanWrite(p) == pending[p] # <<>> /\ (Broken(p) \/ Len(toRelay[p]) < MaxQueue)
CanListen(p) == inbox[p] = NoFrame /\ toClient[p] # <<>>
CanMerge(p) ==
    inbox[p] \notin {NoFrame, Gone} /\ (TakesLock(p, inbox[p]) => pending[p] = <<>>)
CanLock(p) == rmsg[p] \notin {NoFrame, Gone} /\ rmu = "none"
CanFan(p, c) == rmu = p /\ c \in rleft /\ (Broken(c) \/ Len(toClient[c]) < MaxQueue)

Ready ==
    \/ \E p \in Conns : CanWrite(p) \/ CanListen(p) \/ CanMerge(p) \/ CanLock(p)
    \/ \E p, c \in Conns : CanFan(p, c)

Key(k) == [NoKeys EXCEPT ![k] = TRUE]

\* --------------------------------------------------- two clients, one relay
\* The players walk east or stand still and never fire; every step is
\* scheduled freely.
TickWalk(p) ==
    Tick(p, Inputs({NoKeys, Key("D")}, {0}, {FALSE}, {0}, {250}), NetBullets)

Next ==
    \/ \E p \in Peers : TickWalk(p)
    \/ \E p \in Peers : TickWrite(p)
    \/ \E p \in Peers : ListenRead(p)
    \/ \E p \in Peers : ListenMerge(p) /\ UNCHANGED last
    \/ \E p \in Peers : RelayRead(p)
    \/ \E p \in Peers : RelayLock(p)
    \/ \E p, c \in Peers : RelayWrite(p, c)

Spec == Init /\ [][Next]_vars

\* Every step that can run is eventually taken.  A step that needs a mutex
\* is taken if it can run again and again: a waiter of a Go mutex is not
\* starved by the goroutines that keep taking it.
Fairness ==
    /\ \A p \in Peers : SF_vars(TickWalk(p))
    /\ \A p \in Peers : WF_vars(TickWrite(p))
    /\ \A p \in Peers : WF_vars(ListenRead(p))
    /\ \A p \in Peers : SF_vars(ListenMerge(p) /\ UNCHANGED last)
    /\ \A p \in Peers : WF_vars(RelayRead(p))
    /\ \A p \in Peers : SF_vars(RelayLock(p))
    /\ \A p, c \in Peers : WF_vars(RelayWrite(p, c))

FairSpec == Init /\ [][Next]_vars /\ Fairness

\* The public state of a player: what a player_update carries.
Public(pl) ==
    [X |-> pl.X, Y |-> pl.Y, Angle |-> pl.Angle, Health |-> pl.Health, Bullets |-> pl.Bullets]

\* Every peer's record of the other player equals that player's local state.
Synced ==
    \A p \in Peers :
        /\ Other(p) \in DOMAIN game[p].players
        /\ Public(game[p].players[Other(p)]) = Public(game[Other(p)].player)

\* C2: with no projectile in flight and no connection failing, under fair
\* scheduling every peer's record of the other player eventually equals that
\* player's local state and stays equal to it.
C2_Converges == <>[]Synced

\* No step can be taken: every tick, listener and reader of the relay waits
\* for a write or a mutex that another of them holds up.
Stuck == ~ENABLED Next

\* The records converge in every fair behaviour that does not get stuck.
ConvergesUnlessStuck == <>[](Synced \/ Stuck)

\* ------------------------------------------------------------------- duel
\* Two clients and the relay; "111" fires at will, "p2" stands still.  The
\* ticks and the relay's reads are scheduled freely; a write, a fan-out, a
\* listener's read or a merge that can run does so before the next of them.
Shooter == "111"

TickDuel(p) ==
    Tick(p, Inputs({NoKeys}, {0}, {FALSE, p = Shooter}, {0}, {250}), NetBullets)

NextDuel ==
    \/ ~Ready /\ \E p \in Peers : TickDuel(p)
    \/ ~Ready /\ \E p \in Peers : RelayRead(p)
    \/ \E p \in Peers : TickWrite(p)
    \/ \E p \in Peers : ListenRead(p)
    \/ \E p \in Peers : ListenMerge(p) /\ UNCHANGED last
    \/ \E p \in Peers : RelayLock(p)
    \/ \E p, c \in Peers : RelayWrite(p, c)

SpecDuel == Init /\ [][NextDuel]_vars

HealthInRange(h) == h \in 0..MaxHealth

\* C1: the health of every local player and of every remote record is an
\* integer between 0 and MaxHealth.
C1_HealthInRange ==
    \A p \in Peers :
        /\ HealthInRange(game[p].player.Health)
        /\ \A id \in DOMAIN game[p].players : HealthInRange(game[p].players[id].Health)

\* ------------------------------------------------- one client, its listener
\* One client is connected and only its listener runs; the frames of peers
\* outside the model arrive one at a time, each merged before the next.
InitSolo == \E c \in Peers : InitWith({c})

\* The player_update a peer writes for the given player state.
UpdateOf(id, x, y, angle, health, bullets) ==
    sendPlayerUpdate([NewPlayer(id, x, y) EXCEPT !.Angle = angle, !.Health = health,
                                                 !.Bullets = bullets])

\* Ids the inbound frames name: both client ids and the id of a record of
\* the initial map; "nobody" is an id no client and no record has.
MergeIds == Peers \cup {"112"}

MergeFrames ==
    { UpdateOf(id, 10, 20, 90, 30, << Shoot(NewPlayer(id, 10, 20), 0) >>) : id \in MergeIds }
    \cup { PlayerHit(v, HitDamage) : v \in MergeIds \cup {"nobody"} }

NextMerge ==
    \/ ~Ready /\ \E p \in Peers : \E f \in MergeFrames : Inject(p, f)
    \/ \E p \in Peers : ListenRead(p)
    \/ \E p \in Peers : ListenMerge(p) /\ ObserveMerge(p)

SpecMerge == InitSolo /\ [][NextMerge]_vars

\* The step is a merge by the listener of p.
Merging(p) == inbox[p] \notin {NoFrame, Gone} /\ inbox'[p] = NoFrame

\* The last two merges were of the same frame, of the given type.
MergedTwice(type) ==
    last.op = "merge" /\ last.frame.type = type /\ last.prior = last.frame

EncodeBullets(bs) == [i \in 1..Len(bs) |-> EncodeBullet(bs[i])]

\* C5: when a player_update has been merged, merging the same payload once
\* more leaves the map of remote records and the local player as they are.
C5_UpdateIdempotent ==
    [][\A p \in Peers :
          (Merging(p) /\ inbox[p].type = "player_update")
             => Merge(game'[p], inbox[p]) = game'[p]]_vars

C5_Witness ==
    /\ MergedTwice("player_update")
    /\ last.frame.data.id # last.peer
    /\ last.frame.data.bullets # <<>>
    /\ EncodeBullets(game[last.peer].players[last.frame.data.id].Bullets)
          = last.frame.data.bullets

\* C6: merging the same player_hit twice takes the damage off twice: a
\* known record, or the local player, with health h >= 2*damage is left
\* with h - 2*damage.
C6_HitTwice ==
    [][\A p \in Peers :
          (Merging(p) /\ inbox[p].type = "player_hit")
             => LET v  == inbox[p].data.victim_id
                    d  == inbox[p].data.damage
                    g2 == Merge(game'[p], inbox[p])
                IN  /\ (v \in DOMAIN game[p].players /\ game[p].players[v].Health >= 2 * d)
                          => /\ game'[p].players[v].Health = game[p].players[v].Health - d
                             /\ g2.players[v].Health = game[p].players[v].Health - 2 * d
                    /\ (v = game[p].player.ID /\ game[p].player.Health >= 2 * d)
                          => /\ game'[p].player.Health = game[p].player.Health - d
                             /\ g2.player.Health = game[p].player.Health - 2 * d]_vars

C6_Witness ==
    /\ MergedTwice("player_hit")
    /\ last.peer = "p2"
    /\ last.frame.data.victim_id = "112"
    /\ game["p2"].players["112"].Health = MaxHealth - 2 * last.frame.data.damage
    /\ game["p2"].players["112"].Health > 0

\* C7: merging a player_update of another id leaves a record of that id
\* with the payload's position, angle, health and projectile list, whatever
\* it held before and whether or not it existed; the other records and the
\* local player are unchanged.
C7_Upsert ==
    [][\A p \in Peers :
          (Merging(p) /\ inbox[p].type = "player_update"
                      /\ inbox[p].data.id # game[p].player.ID)
             => LET u == inbox[p].data IN
                /\ DOMAIN game'[p].players = DOMAIN game[p].players \cup {u.id}
                /\ game'[p].players[u.id].ID = u.id
                /\ game'[p].players[u.id].X = u.x
                /\ game'[p].players[u.id].Y = u.y
                /\ game'[p].players[u.id].Angle = u.angle
                /\ game'[p].players[u.id].Health = u.health
                /\ EncodeBullets(game'[p].players[u.id].Bullets) = u.bullets
                /\ \A k \in DOMAIN game[p].players \ {u.id} :
                       game'[p].players[k] = game[p].players[k]
                /\ game'[p].player = game[p].player
                /\ game'[p].since = game[p].since]_vars

C7_Witness ==
    /\ last.op = "merge"
    /\ last.frame.type = "player_update"
    /\ last.frame.data.id # last.peer
    /\ last.frame.data.id \notin DOMAIN npcs
    /\ last.frame.data.id \in DOMAIN game[last.peer].players
    /\ game[last.peer].players[last.frame.data.id].Health = last.frame.data.health

\* C8: merging a player_update of the local player's id changes nothing,
\* and creates no record keyed by the local id.
C8_SelfUpdateIgnored ==
    [][\A p \in Peers :
          (Merging(p) /\ inbox[p].type = "player_update"
                      /\ inbox[p].data.id = game[p].player.ID)
             => /\ game'[p] = game[p]
                /\ DOMAIN game'[p].players = DOMAIN game[p].players]_vars

C8_Witness ==
    /\ last.op = "merge"
    /\ last.frame.type = "player_update"
    /\ last.frame.data.id = last.peer
    /\ last.peer \notin DOMAIN game[last.peer].players
    /\ game[last.peer].player.X # last.frame.data.x

\* C9 as stated: merging a player_hit takes the carried damage off exactly
\* one entity, the record keyed by victim_id when there is one, the local
\* player when victim_id is the local id; a victim_id that is neither
\* changes nothing.
C9_OneEntityByDamage ==
    [][\A p \in Peers :
          (Merging(p) /\ inbox[p].type = "player_hit")
             => LET v == inbox[p].data.victim_id
                    d == inbox[p].data.damage
                    known == v \in DOMAIN game[p].players
                    isLocal == v = game[p].player.ID
                IN  /\ DOMAIN game'[p].players = DOMAIN game[p].players
                    /\ \A k \in DOMAIN game[p].players \ {v} :
                           game'[p].players[k].Health = game[p].players[k].Health
                    /\ known => /\ game'[p].players[v].Health = game[p].players[v].Health - d
                                /\ game'[p].player.Health = game[p].player.Health
                    /\ (~known /\ isLocal)
                          => game'[p].player.Health = game[p].player.Health - d
                    /\ (~known /\ ~isLocal) => game'[p] = game[p]]_vars

\* C9, amended: merging a player_hit lowers the health of the record keyed
\* by victim_id, if there is one, by the damage but not below 0; it lowers
\* the local player's health by the damage, with no floor, if victim_id is
\* the local id; it does both if both hold; nothing else changes and no
\* record is created.
C9_HitMerge ==
    [][\A p \in Peers :
          (Merging(p) /\ inbox[p].type = "player_hit")
             => LET v == inbox[p].data.victim_id
                    d == inbox[p].data.damage
                IN  /\ DOMAIN game'[p].players = DOMAIN game[p].players
                    /\ \A k \in DOMAIN game[p].players :
                           game'[p].players[k] =
                              IF k = v
                              THEN [game[p].players[k] EXCEPT
                                       !.Health = Max(0, game[p].players[k].Health - d)]
                              ELSE game[p].players[k]
                    /\ game'[p].player =
                          IF v = game[p].player.ID
                          THEN [game[p].player EXCEPT !.Health = @ - d]
                          ELSE game[p].player
                    /\ game'[p].since = game[p].since]_vars

C9_Witness ==
    /\ last.op = "merge"
    /\ last.frame.type = "player_hit"
    /\ last.frame.data.victim_id = last.peer
    /\ last.peer \in DOMAIN game[last.peer].players
    /\ game[last.peer].players[last.peer].Health = 0
    /\ game[last.peer].player.Health < 0

\* ------------------------------------------------ one client, its ticks
\* Client "111" alone: it stands or walks west, aims north and fires with or
\* without recoil at the records of the initial map, while hits on one of
\* them arrive from peers outside the model.  A tick, an arriving frame and
\* a read of the relay wait for the writes, reads and merges under way.
HitInputs ==
    Inputs({NoKeys, Key("A")}, {270}, {FALSE}, {0}, {250})
    \cup Inputs({NoKeys, Key("A")}, {270}, {TRUE}, {0, 0 - 2}, {250})

TickHit(p) == Tick(p, HitInputs, MaxBullets)

HitFrames == { PlayerHit("224", HitDamage) }

NextHit ==
    \/ ~Ready /\ \E p \in Peers : TickHit(p)
    \/ ~Ready /\ \E p \in Peers : \E f \in HitFrames : Inject(p, f)
    \/ ~Ready /\ \E p \in Peers : RelayRead(p)
    \/ \E p \in Peers : TickWrite(p)
    \/ \E p \in Peers : RelayLock(p)
    \/ \E p \in Peers : ListenRead(p)
    \/ \E p \in Peers : ListenMerge(p) /\ ObserveMerge(p)

SpecHit == InitWith({Shooter}) /\ [][NextHit]_vars

\* The step is the start of a tick of p.
TickStep(p) == pending[p] = <<>> /\ pending'[p] # <<>>

\* The player_hit frames of fs that name victim v, by index.
HitsOn(fs, v) ==
    {i \in 1..Len(fs) : fs[i].type = "player_hit" /\ fs[i].data.victim_id = v}

\* C3: the player_hit a tick emits for a hit names the target and carries
\* the amount the tick took off the target's health.
C3_SameDamage ==
    [][\A p \in Peers :
          TickStep(p) =>
             \A v \in DOMAIN game[p].players :
                \A i \in HitsOn(pending'[p], v) :
                   (Cardinality(HitsOn(pending'[p], v)) = 1
                      /\ game[p].players[v].Health >= pending'[p][i].data.damage)
                   => game[p].players[v].Health - game'[p].players[v].Health
                         = pending'[p][i].data.damage]_vars

\* Bullet k of game g crosses a wall of the hit box of the record of id.
Touches(g, k, id) ==
    Crossed(HitBox(g.players[id]).Walls, BulletLine(g.player.Bullets[k])) # {}

\* The entries of the damage log about bullet k, by index.
EntriesOf(log, k) == {j \in 1..Len(log) : log[j].bullet = k}

\* The i-th smallest element of K.
Nth(K, i) == CHOOSE k \in K : Cardinality({m \in K : m < k}) = i - 1

\* On the tick r, r.mid being the game hit detection starts from: every
\* bullet and every record whose hit box the bullet's line crosses get
\* exactly one damage application and one player_hit, and the bullet is
\* removed.
OnceEveryPair(r) ==
    \A k \in 1..Len(r.mid.player.Bullets) :
        \A id \in DOMAIN r.mid.players :
            Touches(r.mid, k, id)
               => /\ Cardinality({j \in EntriesOf(r.log, k) : r.log[j].victim = id}) = 1
                  /\ Cardinality(HitsOn(r.out, id))
                        = Cardinality({j \in 1..Len(r.log) : r.log[j].victim = id})
                  /\ \A i \in 1..Len(r.g.player.Bullets) :
                         r.g.player.Bullets[i] # r.mid.player.Bullets[k]

\* C4 as stated: every tick that can start applies damage once, emits one
\* player_hit and removes the bullet for every bullet and every record whose
\* hit box the bullet's line crosses.
C4_OncePerPair ==
    \A p \in clients :
        (CanTick(p) /\ ~Ready) =>
        \A in \in HitInputs :
            \A mid \in {MovePlayer(game[p], in)} :
                \A order \in Orders(mid.g) :
                    OnceEveryPair(Collide(mid, order))

\* On the tick r that iterated the targets in the given order:
\* a bullet is spent on the first target in iteration order, among those
\* with positive health and an id other than the local one, whose hit box
\* its line crosses.  For that pair the damage is applied once, at the
\* first crossed wall, one player_hit is emitted and the bullet is removed;
\* every other bullet stays, and no other pair gets damage or a frame.
OnceEachTested(r, order) ==
    LET bs == r.mid.player.Bullets
        T(k) == {j \in 1..Len(order) : Touches(r.mid, k, order[j])}
        Keep == {k \in 1..Len(bs) : T(k) = {}}
        Count(id) == Cardinality({j \in 1..Len(r.log) : r.log[j].victim = id})
    IN  /\ \A k \in 1..Len(bs) :
              IF T(k) = {} THEN EntriesOf(r.log, k) = {}
              ELSE /\ Cardinality(EntriesOf(r.log, k)) = 1
                   /\ \A j \in EntriesOf(r.log, k) :
                         /\ r.log[j].victim = order[SetMin(T(k))]
                         /\ r.log[j].edge =
                               SetMin(Crossed(HitBox(r.mid.players[r.log[j].victim]).Walls,
                                              BulletLine(bs[k])))
                         /\ r.log[j].after = Max(0, r.log[j].before - LocalDamage)
        /\ Len(r.g.player.Bullets) = Cardinality(Keep)
        /\ \A i \in 1..Len(r.g.player.Bullets) : r.g.player.Bullets[i] = bs[Nth(Keep, i)]
        /\ Len(r.out) = Len(r.log) + 1
        /\ \A j \in 1..Len(r.log) : r.out[j] = PlayerHit(r.log[j].victim, HitDamage)
        /\ \A id \in DOMAIN r.mid.players :
              r.g.players[id] =
                 [r.mid.players[id] EXCEPT
                     !.Health = IF Count(id) = 0 THEN @
                                ELSE Max(0, @ - LocalDamage * Count(id))]

\* C4, amended: every tick that can start spends each bullet on the first
\* live target, in iteration order, whose hit box its line crosses, with one
\* damage application at the first crossed wall and one player_hit, and
\* leaves every other bullet and record as they are.
C4_OncePerTestedPair ==
    \A p \in clients :
        (CanTick(p) /\ ~Ready) =>
        \A in \in HitInputs :
            \A mid \in {MovePlayer(game[p], in)} :
                \A order \in Orders(mid.g) :
                    OnceEachTested(Collide(mid, order), order)

\* A tick has just spent a bullet on "223", whose hit box the bullet's line
\* meets at a corner, on two walls; "224", which the line meets too, is
\* untouched.
C4_Witness ==
    \E p \in clients :
        /\ Len(pending[p]) = 2
        /\ pending[p][1] = PlayerHit("223", HitDamage)
        /\ game[p].players["223"].Health = MaxHealth - LocalDamage
        /\ game[p].players["224"].Health = MaxHealth
        /\ game[p].player.Bullets = <<>>

\* C10: a tick's hit detection and the merge of a player_hit never leave the
\* health of a record below 0; a record whose health is below the damage is
\* left at exactly 0, and stays there under further hits.
C10_FloorAtZero ==
    [][\A p \in Peers :
          \A id \in DOMAIN game[p].players :
             /\ (TickStep(p) /\ HitsOn(pending'[p], id) # {})
                   => /\ game'[p].players[id].Health >= 0
                      /\ game[p].players[id].Health < LocalDamage
                            => game'[p].players[id].Health = 0
             /\ TickStep(p) /\ game[p].players[id].Health = 0
                   => game'[p].players[id].Health = 0
             /\ (Merging(p) /\ inbox[p].type = "player_hit"
                            /\ inbox[p].data.victim_id = id)
                   => /\ game'[p].players[id].Health >= 0
                      /\ game[p].players[id].Health < inbox[p].data.damage
                            => game'[p].players[id].Health = 0]_vars

\* One hit from outside has been merged (100 to 80, or 50 to 30) and a tick
\* has just taken "224" from 30 to 0.
C10_Witness ==
    \E p \in clients :
        /\ last = Step("merge", p, PlayerHit("224", HitDamage), NoFrame)
        /\ HitsOn(pending[p], "224") # {}
        /\ game[p].players["224"].Health = 0

\* --------------------------------------- one client, its own id in the map
\* Client "111" alone, standing at the spawn point: it aims south and fires,
\* with or without recoil, towards the records "111" and "112" of the
\* initial map, the first of which carries its own id, while hits on itself
\* arrive from peers outside the model.
OwnInputs == Inputs({NoKeys}, {90}, BOOLEAN, {0, 0 - 2}, {250})

TickOwn(p) == Tick(p, OwnInputs, MaxBullets)

OwnFrames == { PlayerHit(Shooter, HitDamage) }

NextOwn ==
    \/ ~Ready /\ \E p \in Peers : TickOwn(p)
    \/ ~Ready /\ \E p \in Peers : \E f \in OwnFrames : Inject(p, f)
    \/ ~Ready /\ \E p \in Peers : RelayRead(p)
    \/ \E p \in Peers : TickWrite(p)
    \/ \E p \in Peers : RelayLock(p)
    \/ \E p \in Peers : ListenRead(p)
    \/ \E p \in Peers : ListenMerge(p) /\ ObserveMerge(p)

SpecOwn == InitWith({Shooter}) /\ [][NextOwn]_vars

\* C11: a tick changes neither the local player's health nor the record
\* keyed by the local player's id, and emits no player_hit that names the
\* local player.
C11_NoSelfHit ==
    [][\A p \in Peers :
          TickStep(p) =>
             /\ game'[p].player.Health = game[p].player.Health
             /\ game[p].player.ID \in DOMAIN game[p].players
                   => game'[p].players[game[p].player.ID]
                         = game[p].players[game[p].player.ID]
             /\ HitsOn(pending'[p], game[p].player.ID) = {}]_vars

\* A tick has just run in which a bullet's line met the hit box of the
\* record keyed by the local id, at full health; the bullet is still there.
C11_Witness ==
    \E p \in clients :
        /\ pending[p] # <<>>
        /\ p \in DOMAIN game[p].players
        /\ game[p].players[p].Health = MaxHealth
        /\ \E k \in 1..Len(game[p].player.Bullets) : Touches(game[p], k, p)

\* On the tick r: every bullet whose line crosses the hit box of a record
\* of another id with health 0 is removed, a player_hit names the record,
\* and the record's health stays 0.
DeadStillHit(r) ==
    \A k \in 1..Len(r.mid.player.Bullets) :
        \A id \in DOMAIN r.mid.players :
            (/\ r.mid.players[id].Health = 0
             /\ r.mid.players[id].ID # r.mid.player.ID
             /\ Touches(r.mid, k, id))
               => /\ \A i \in 1..Len(r.g.player.Bullets) :
                         r.g.player.Bullets[i] # r.mid.player.Bullets[k]
                  /\ HitsOn(r.out, id) # {}
                  /\ r.g.players[id].Health = 0

\* C12: in every tick that can start, a bullet whose segment meets the hit
\* box of a target with health 0 is consumed, a player_hit is emitted and
\* the target's health stays 0.
C12_DeadStillHit ==
    \A p \in clients :
        (CanTick(p) /\ ~Ready) =>
        \A in \in HitInputs :
            \A mid \in {MovePlayer(game[p], in)} :
                \A order \in Orders(mid.g) :
                    DeadStillHit(Collide(mid, order))


\* ------------------------------------------------------------- the relay
\* Three connections around the relay: two clients that stand still, each
\* ticking, writing and listening, and a third that only listens; any
\* connection may break.  A client ticks once its previous frame has left
\* its connection and the listeners have caught up; the relay's steps
\* interleave freely.
TickStand(p) ==
    /\ toRelay[p] = <<>>
    /\ rmsg[p] \in {NoFrame, Gone}
    /\ \A q \in Conns : ~(CanListen(q) \/ CanMerge(q) \/ CanWrite(q))
    /\ Tick(p, Inputs({NoKeys}, {0}, {FALSE}, {0}, {250}), NetBullets)

NextRelay ==
    \/ \E p \in Peers : TickStand(p)
    \/ \E p \in Conns : TickWrite(p)
    \/ \E p \in Conns : TickWriteFail(p)
    \/ \E p \in Conns : ListenRead(p)
    \/ \E p \in Conns : ListenFail(p)
    \/ \E p \in Conns : ListenMerge(p) /\ UNCHANGED last
    \/ \E p \in Conns : RelayRead(p)
    \/ \E p \in Conns : RelayLock(p)
    \/ \E p \in Conns : RelayDrop(p)
    \/ \E p, c \in Conns : RelayWrite(p, c)
    \/ \E p, c \in Conns : RelayWriteFail(p, c)
    \/ \E p \in Conns : Break(p)

SpecRelay == InitWith(Conns) /\ [][NextRelay]_vars

IsData(f) == f \notin {NoFrame, Eof, Gone}

\* A frame is written to client c in this step.
WrittenTo(c) ==
    /\ Len(toClient'[c]) = Len(toClient[c]) + 1
    /\ toClient'[c][Len(toClient'[c])] # Eof

\* C13: every frame the relay has read from a peer p is fanned out under the
\* mutex to exactly the clients registered then, p excepted: the frame is kept
\* as read until the loop ends, each of those clients is visited once, one at
\* a time, a visit writes the frame as read to the client unless the client's
\* connection is broken, the loop ends only when all were visited, and no
\* frame is written outside a fan-out or to the sender.
C13_FanOut ==
    [][\A p \in Conns :
          /\ (rmu # p /\ rmu' = p) =>
                /\ IsData(rmsg[p])
                /\ rleft' = clients \ {p}
                /\ rmsg'[p] = rmsg[p]
          /\ (rmu = p) =>
                /\ IsData(rmsg[p])
                /\ p \notin rleft
                /\ rleft' \subseteq rleft
                /\ Cardinality(rleft \ rleft') <= 1
                /\ rmu' \in {p, "none"}
                /\ rmu' = p => rmsg'[p] = rmsg[p] /\ rleft' # {}
                /\ rmu' = "none" => rleft' = {} /\ rmsg'[p] = NoFrame
                /\ \A c \in rleft \ rleft' :
                      \/ toClient'[c] = Append(toClient[c], rmsg[p])
                      \/ Broken(c) /\ toClient'[c] = toClient[c]
                /\ \A c \in Conns : WrittenTo(c) => c \in rleft \ rleft'
          /\ (IsData(rmsg[p]) /\ rmsg'[p] # rmsg[p]) =>
                \/ rmu = p /\ rleft' = {}
                \/ rmu = "none" /\ clients \ {p} = {}
          /\ (rmu = "none") => ~WrittenTo(p)
      ]_vars

\* A fan-out to two clients has written the frame to one of them and not yet
\* to the other.
C13_Witness ==
    \E p \in Conns : \E c, d \in clients \ {p} :
        /\ rmu = p
        /\ rleft = {d}
        /\ c # d
        /\ toClient[c] # <<>>
        /\ toClient[c][Len(toClient[c])] = rmsg[p]
        /\ IsData(rmsg[p])

\* C19: a reader whose read has failed does nothing but remove its peer from
\* the client set and return; a returned reader reads and relays nothing
\* more; a peer that is no longer registered is in no fan-out and is written
\* no frame; and every later fan-out covers all the peers that remain.
C19_ReadFailure ==
    [][\A p \in Conns :
          /\ (rmsg[p] = Eof /\ rmsg'[p] # Eof) =>
                /\ rmsg'[p] = Gone
                /\ clients' = clients \ {p}
          /\ (rmsg[p] = Eof) => rmu' # p
          /\ (rmsg[p] = Gone) =>
                /\ rmsg'[p] = Gone
                /\ toRelay'[p] = toRelay[p]
                /\ rmu' # p
          /\ (p \notin clients) =>
                /\ rmsg[p] = Gone
                /\ p \notin clients'
                /\ p \notin rleft'
                /\ ~WrittenTo(p)
          /\ (rmu # p /\ rmu' = p) => rleft' = clients \ {p}
      ]_vars

\* With one peer removed after its read failed, a frame of a remaining peer
\* is being fanned out to the other remaining peer.
C19_Witness ==
    \E q \in Conns : \E p, c \in clients :
        /\ rmsg[q] = Gone
        /\ q \notin clients
        /\ rmu = p
        /\ rleft = {c}
        /\ IsData(rmsg[p])

\* The holder's write to client c fails in this step.
FailedWrite(p, c) ==
    /\ rmu = p
    /\ c \in rleft
    /\ c \notin rleft'
    /\ toClient'[c] = toClient[c]

\* C20: a failed write of the fan-out of p's frame to client c takes only c
\* off the clients still to be written; with clients left the loop goes on
\* holding the mutex and the frame, otherwise it ends as after a successful
\* write, p's reader going back to reading; no client is removed.
C20_WriteFailure ==
    [][\A p, c \in Conns :
          FailedWrite(p, c) =>
             /\ rleft' = rleft \ {c}
             /\ clients' = clients
             /\ p \in clients
             /\ rleft' # {} => rmu' = p /\ rmsg'[p] = rmsg[p]
             /\ rleft' = {} => rmu' = "none" /\ rmsg'[p] = NoFrame
      ]_vars

\* The fan-out of a frame of "p2" has visited client c, which never got a
\* frame of "p2" and whose connection is broken, and goes on to client d.
C20_Witness ==
    \E c, d \in clients \ {"p2"} :
        /\ rmu = "p2"
        /\ rleft = {d}
        /\ c # d
        /\ ~Broken(d)
        /\ toClient[c] = <<Eof>>
        /\ inbox[c] = NoFrame
        /\ "p2" \notin DOMAIN game[c].players

\* The frames of q on their way to p, oldest first: the one p's listener has
\* read, those on p's connection, the one the relay's reader of q holds,
\* those on q's connection and those q's tick has still to write.
OnTheWay(q, p) ==
    (IF IsData(inbox[p]) THEN <<inbox[p]>> ELSE <<>>) \o toClient[p]
    \o (IF IsData(rmsg[q]) THEN <<rmsg[q]>> ELSE <<>>) \o toRelay[q] \o pending[q]

\* The x of q as p has merged it, the x of the player_update frames of q on
\* their way to p, and the x of q itself, in this order.
History(q, p) ==
    (IF q \in DOMAIN game[p].players /\ Abs(game[p].players[q].Y - SpawnY) <= MaxWalk
     THEN <<game[p].players[q].X>> ELSE <<>>)
    \o [i \in 1..Len(SelectSeq(OnTheWay(q, p),
                      LAMBDA f : f.type = "player_update" /\ f.data.id = q)) |->
           SelectSeq(OnTheWay(q, p),
                      LAMBDA f : f.type = "player_update" /\ f.data.id = q)[i].data.x]
    \o <<game[q].player.X>>

\* C14: a client that only walks east writes frames of non-decreasing x; at
\* every moment, what another client has merged of it, followed by its
\* frames on their way there in the order they will be merged, followed by
\* its own position, is non-decreasing in x: no frame is merged after a
\* frame written later.
C14_InOrder ==
    \A q \in Peers : \A p \in Peers \ {q} :
        \A i, j \in 1..Len(History(q, p)) :
            i < j => History(q, p)[i] <= History(q, p)[j]

\* A client has merged the frame another wrote at its spawn point and has
\* read the frame that one wrote after its step east.
C14_Witness ==
    \E q \in Peers : \E p \in Peers \ {q} :
        /\ q \in DOMAIN game[p].players
        /\ game[p].players[q].Y = SpawnY
        /\ game[p].players[q].X = SpawnX
        /\ inbox[p].type = "player_update"
        /\ inbox[p].data.id = q
        /\ inbox[p].data.x = SpawnX + 1

\* C15: the frames a tick of p has to write end with one player_update, which
\* is the encoding of the local player as the tick leaves it, and hold only
\* player_hit frames before it; until the last of them is written the local
\* player does not change, and the frames go to the connection one at a
\* time, first to last, nothing else being written to it.
C15_TickFrames ==
    [][\A p \in Peers :
          /\ TickStep(p) =>
                /\ pending'[p][Len(pending'[p])] = sendPlayerUpdate(game'[p].player)
                /\ \A i \in 1..(Len(pending'[p]) - 1) : pending'[p][i].type = "player_hit"
          /\ (pending[p] # <<>>) =>
                /\ game'[p].player = game[p].player
                /\ \/ pending'[p] = pending[p] /\ toRelay'[p] = toRelay[p]
                   \/ /\ pending'[p] = Tail(pending[p])
                      /\ toRelay'[p] = Append(toRelay[p], Head(pending[p]))
                   \/ pending'[p] = pending[p] /\ toRelay'[p] = Tail(toRelay[p])
          /\ (pending[p] = <<>>) => Len(toRelay'[p]) <= Len(toRelay[p])
      ]_vars

\* The tick of a downed player has its player_update to write, carrying the
\* health the player is left with.
C15_Witness ==
    \E p \in Peers :
        /\ game[p].player.Health <= 0
        /\ pending[p] = <<sendPlayerUpdate(game[p].player)>>

\* ------------------------------------------------------------ the draw step
\* One client that walks, its listener, which merges the frames of peers
\* outside the model, and its draw step.  The game loop calls Update and
\* Draw one after the other: no tick starts inside a draw step.
TickDrawn(p) == draw[p] = "idle" /\ TickWalk(p)

\* The frames that arrive: the player_update of a peer the map does not
\* hold yet, with one projectile, and a player_hit on the local player.
DrawFrames ==
    { UpdateOf("p2", 10, 20, 90, 30, << Shoot(NewPlayer("p2", 10, 20), 0) >>),
      PlayerHit(Shooter, HitDamage) }

NextDraw ==
    \/ ~Ready /\ \E p \in Peers : TickDrawn(p)
    \/ ~Ready /\ \E p \in Peers : \E f \in DrawFrames : Inject(p, f)
    \/ ~Ready /\ \E p \in Peers : RelayRead(p)
    \/ \E p \in Peers : TickWrite(p)
    \/ \E p \in Peers : RelayLock(p)
    \/ \E p \in Peers : ListenRead(p)
    \/ \E p \in Peers : ListenMerge(p) /\ UNCHANGED last
    \/ \E p \in Peers : DrawBegin(p)
    \/ \E p \in Peers : DrawPlayers(p)
    \/ \E p \in Peers : DrawEnd(p)

SpecDraw == InitWith({Shooter}) /\ [][NextDraw]_vars

\* C16: while the draw step of a client is in one of its loops, neither the
\* map, nor a record, nor the local player of that client changes.
C16_DrawExcluded ==
    [][\A p \in Peers :
          draw[p] # "idle" =>
             /\ game'[p].players = game[p].players
             /\ game'[p].player = game[p].player
      ]_vars

\* ------------------------------------------------- frames that do not decode
\* One client and its listener; among the frames that arrive are a line
\* that is not JSON, envelopes whose payload is a JSON array, and an
\* envelope of a type the listener does not know.
NotJson == [junk |-> "}{"]

BadPayload(type) == [type |-> type, data |-> [kind |-> "array"]]

UnknownType == [type |-> "player_joined", data |-> [id |-> "p2"]]

BadFrames ==
    {NotJson, BadPayload("player_update"), BadPayload("player_hit"), UnknownType}

GoodFrames ==
    { UpdateOf("p2", 10, 20, 90, 30, <<>>), PlayerHit(Shooter, HitDamage),
      PlayerHit("p2", HitDamage) }

NextBad ==
    \/ ~Ready /\ \E p \in Peers : \E f \in BadFrames \cup GoodFrames : Inject(p, f)
    \/ \E p \in Peers : ListenRead(p)
    \/ \E p \in Peers : ListenMerge(p) /\ ObserveMerge(p)

SpecBad == InitWith({Shooter}) /\ [][NextBad]_vars

\* C17: the step of the listener on a line that is not JSON, on an envelope
\* whose payload does not decode or on an envelope of an unknown type leaves
\* the local player and the map as they were and the connection as it was,
\* and the listener goes back to reading.
C17_BadFramePassedOver ==
    [][\A p \in Peers :
          (inbox[p] \in BadFrames /\ inbox'[p] # inbox[p]) =>
             /\ game'[p] = game[p]
             /\ inbox'[p] = NoFrame
             /\ clients' = clients
             /\ toClient'[p] = toClient[p]
      ]_vars

\* The listener has merged the player_update of "p2" right after a frame it
\* could not decode.
C17_Witness ==
    /\ last.op = "merge"
    /\ last.prior \in BadFrames
    /\ last.frame = UpdateOf("p2", 10, 20, 90, 30, <<>>)
    /\ "p2" \in DOMAIN game[last.peer].players
    /\ game[last.peer].players["p2"].Health = 30

\* C18: the read of a listener that meets the end of its stream makes the
\* listener return; a listener that has returned stays so and reads nothing
\* more; from then on the game of its client changes in no step but the
\* client's own ticks, which leave the local health alone; a tick can start
\* whenever none is under way, it has a player_update to write, and its
\* writes never wait.
C18_ListenerGone ==
    [][\A p \in Conns :
          /\ (toClient[p] # <<>> /\ Head(toClient[p]) = Eof /\ toClient'[p] # toClient[p])
                => inbox'[p] = Gone
          /\ (inbox[p] = Gone) =>
                /\ inbox'[p] = Gone
                /\ toClient'[p] = toClient[p]
                /\ game'[p] # game[p] => TickStep(p)
                /\ game'[p].player.Health = game[p].player.Health
                /\ game'[p].players = game[p].players
                /\ CanTick(p) \/ CanWrite(p)
                /\ TickStep(p) =>
                      pending'[p][Len(pending'[p])] = sendPlayerUpdate(game'[p].player)
      ]_vars

\* A client whose listener has returned has ticked and has its
\* player_update to write.
C18_Witness ==
    \E p \in Peers :
        /\ inbox[p] = Gone
        /\ pending[p] = <<sendPlayerUpdate(game[p].player)>>

\* ------------------------------------------------------------------ health
\* C21: no step raises the local health of a client or the health of a
\* record of its map.
C21_HealthNeverRises ==
    [][\A p \in Peers :
          /\ game'[p].player.Health <= game[p].player.Health
          /\ \A id \in DOMAIN game[p].players :
                game'[p].players[id].Health <= game[p].players[id].Health
      ]_vars

\* ----------------------------------------------------- the life of a record
\* The id a decoded frame names: the id of a player_update, the victim of a
\* player_hit.
Named(frame) ==
    IF frame.type = "player_update" THEN frame.data.id ELSE frame.data.victim_id

\* C22 as stated: the merge of a frame that names an id which is neither the
\* local one nor the key of a record leaves a record of that id at full
\* health, and no step takes a record out of the map.
C22_CreatedAtFullHealth ==
    [][\A p \in Peers :
          /\ DOMAIN game[p].players \subseteq DOMAIN game'[p].players
          /\ (/\ Merging(p)
              /\ Named(inbox[p]) # game[p].player.ID
              /\ Named(inbox[p]) \notin DOMAIN game[p].players)
                => /\ Named(inbox[p]) \in DOMAIN game'[p].players
                   /\ game'[p].players[Named(inbox[p])].Health = MaxHealth
      ]_vars

\* C22, amended: no step takes a record out of the map, whatever its
\* health; a record enters the map only in the merge of a player_update
\* whose id is neither the local one nor a key of the map, every such merge
\* adds the record of that id, and the record holds the health the
\* player_update carries; the merge of a player_hit adds no record.
C22_RecordLifecycle ==
    [][\A p \in Peers :
          /\ DOMAIN game[p].players \subseteq DOMAIN game'[p].players
          /\ \A id \in DOMAIN game'[p].players \ DOMAIN game[p].players :
                /\ Merging(p)
                /\ inbox[p].type = "player_update"
                /\ inbox[p].data.id = id
                /\ id # game[p].player.ID
                /\ game'[p].players[id].Health = inbox[p].data.health
          /\ (/\ Merging(p)
              /\ inbox[p].type = "player_update"
              /\ inbox[p].data.id # game[p].player.ID)
                => inbox[p].data.id \in DOMAIN game'[p].players
          /\ (Merging(p) /\ inbox[p].type = "player_hit")
                => DOMAIN game'[p].players = DOMAIN game[p].players
      ]_vars

\* A record that a player_update created is still in the map with its
\* health at 0.
C22_Witness ==
    \E p \in clients : \E id \in DOMAIN game[p].players \ DOMAIN npcs :
        game[p].players[id].Health = 0

\* ---------------------------------------------------------------- geometry
\* Intersection called on its own, on every pair of segments whose end
\* points have coordinates in 0..GeoMax.
GeoMax == 2

GeoLines ==
    { Line(x1, y1, x2, y2) : x1 \in 0..GeoMax, y1 \in 0..GeoMax,
                             x2 \in 0..GeoMax, y2 \in 0..GeoMax }

\* The call returns.
Return(out) ==
    /\ call' = [call EXCEPT !.done = TRUE, !.out = out]
    /\ UNCHANGED <<game, pending, inbox, toRelay, toClient, clients, rmsg, rmu, rleft,
                   last, draw>>

CallIntersection ==
    /\ call.fn = "Intersection"
    /\ ~call.done
    /\ Return(Intersection(call.in[1], call.in[2]))

InitIntersection ==
    /\ Started({})
    /\ \E l1, l2 \in GeoLines : call = Call("Intersection", <<l1, l2>>)

SpecIntersection == InitIntersection /\ [][CallIntersection]_vars

\* Twice the signed area of the triangle a, b, c, each a pair <<x, y>>.
Orient(a, b, c) == (b[1] - a[1]) * (c[2] - a[2]) - (b[2] - a[2]) * (c[1] - a[1])

\* The end points of l2 are not strictly on one side of the line through
\* l1, nor those of l1 strictly on one side of the line through l2.
Straddle(l1, l2) ==
    /\ Orient(<<l1.X1, l1.Y1>>, <<l1.X2, l1.Y2>>, <<l2.X1, l2.Y1>>)
         * Orient(<<l1.X1, l1.Y1>>, <<l1.X2, l1.Y2>>, <<l2.X2, l2.Y2>>) <= 0
    /\ Orient(<<l2.X1, l2.Y1>>, <<l2.X2, l2.Y2>>, <<l1.X1, l1.Y1>>)
         * Orient(<<l2.X1, l2.Y1>>, <<l2.X2, l2.Y2>>, <<l1.X2, l1.Y2>>) <= 0

\* The directions of l1 and l2 are parallel, or one of them has no length.
Parallel(l1, l2) ==
    (l1.X2 - l1.X1) * (l2.Y2 - l2.Y1) = (l1.Y2 - l1.Y1) * (l2.X2 - l2.X1)

\* The point l1.start + (tNum/denom) * (l1.end - l1.start), times denom, is
\* also l2.start + (uNum/denom) * (l2.end - l2.start), times denom.
OnBoth(l1, l2, r) ==
    /\ l1.X1 * r.denom + r.tNum * (l1.X2 - l1.X1) = l2.X1 * r.denom + r.uNum * (l2.X2 - l2.X1)
    /\ l1.Y1 * r.denom + r.tNum * (l1.Y2 - l1.Y1) = l2.Y1 * r.denom + r.uNum * (l2.Y2 - l2.Y1)

IntersectionRight(l1, l2, r) ==
    /\ r.ok <=> (r.denom # 0 /\ InUnit(r.tNum, r.denom) /\ InUnit(r.uNum, r.denom))
    /\ r.ok <=> (~Parallel(l1, l2) /\ Straddle(l1, l2))
    /\ r.ok => OnBoth(l1, l2, r)
    /\ Parallel(l1, l2) => r.denom = 0 /\ ~r.ok

\* C23: Intersection reports an intersection exactly when its denominator is
\* not 0 and both offsets are in [0,1], which is exactly when the segments
\* are not parallel, neither is a point, and each has its end points on
\* both sides of, or on, the other; the point it returns, at offset t on the
\* first segment, is the point at offset u on the second; parallel and
\* zero-length arguments give no intersection.
C23_Intersection ==
    (call.fn = "Intersection" /\ call.done)
        => IntersectionRight(call.in[1], call.in[2], call.out)

\* Intersection has reported two segments that only touch, an end point of
\* the second lying on the first, as intersecting.
C23_Witness ==
    /\ call.fn = "Intersection"
    /\ call.done
    /\ call.out.ok
    /\ call.out.uNum = 0
    /\ call.out.tNum # 0
    /\ call.out.tNum # call.out.denom

\* ------------------------------------------------------- the end of a shot
\* A tick of the shooter can start: one with no key and no button pressed
\* always can when none is under way.
TickReady == ~Ready /\ CanTick(Shooter)

\* SpecOwn with every step that can run eventually taken: the game loop
\* keeps ticking (weak fairness of the tick, written with TickReady for
\* its enabling condition), the writes, the relay and the listener go on.
FairOwn ==
    /\ InitWith({Shooter})
    /\ [][NextOwn]_vars
    /\ ([]<>(~TickReady) \/ []<><<TickStep(Shooter)>>_vars)
    /\ WF_vars(~Ready /\ \E p \in Peers : RelayRead(p))
    /\ WF_vars(\E p \in Peers : TickWrite(p))
    /\ WF_vars(\E p \in Peers : RelayLock(p))
    /\ WF_vars(\E p \in Peers : ListenRead(p))
    /\ WF_vars(\E p \in Peers : ListenMerge(p) /\ ObserveMerge(p))

\* The height of the oldest projectile of the local collection of p.
OldestY(p) ==
    IF game[p].player.Bullets = <<>> THEN 0 - 1 ELSE game[p].player.Bullets[1].Y

\* The heights a projectile shot downwards from the spawn point passes.
FlightYs == { SpawnY + k * BulletSpeed : k \in 1..5 }

\* C24: no projectile stays in the local collection for ever: the oldest
\* projectile of the shooter, shot downwards, does not stay at any height
\* of its flight from some moment on.
C24_BulletsLeave ==
    \A y \in FlightYs : []<>(OldestY(Shooter) # y)

\* ------------------------------------------------------------ the cooldown
\* One client that stands, aims downwards and presses the fire button or
\* not, ticks ShotDt milliseconds apart: a shot, then two ticks within the
\* cooldown, then a tick after it.
ShotDt == 100

ShootInputs == Inputs({NoKeys}, {90}, BOOLEAN, {0, 0 - 2}, {ShotDt})

TickShoot(p) == Tick(p, ShootInputs, MaxBullets)

NextShoot ==
    \/ ~Ready /\ \E p \in Peers : TickShoot(p)
    \/ ~Ready /\ \E p \in Peers : RelayRead(p)
    \/ \E p \in Peers : TickWrite(p)
    \/ \E p \in Peers : RelayLock(p)

SpecShoot == InitWith({Shooter}) /\ [][NextShoot]_vars

\* The projectiles the local collection of p holds after this step that are
\* not projectiles it held before, advanced by one tick.
Fresh(p) ==
    { i \in 1..Len(game'[p].player.Bullets) :
        \A j \in 1..Len(game[p].player.Bullets) :
            game'[p].player.Bullets[i] # BulletUpdate(game[p].player.Bullets[j]) }

\* The local collection after a tick of g under input in holds only
\* projectiles it held before, advanced.
NoneCreated(g, in) ==
    \A order \in Orders(MovePlayer(g, in).g) :
        \A b \in { GameUpdate(g, in, order).g.player.Bullets[i] :
                      i \in 1..Len(GameUpdate(g, in, order).g.player.Bullets) } :
            \E j \in 1..Len(g.player.Bullets) : b = BulletUpdate(g.player.Bullets[j])

\* C25: a tick adds at most one projectile to the local collection; it adds
\* one only if the previous shot is, at that tick, more than ShootCooldown
\* old, and it then restarts the clock of the cooldown; a tick in which the
\* fire button is not pressed adds none.
C25_Cooldown ==
    [][\A p \in Peers :
          TickStep(p) =>
             /\ Cardinality(Fresh(p)) <= 1
             /\ Len(game'[p].player.Bullets) <= Len(game[p].player.Bullets) + 1
             /\ Fresh(p) # {} =>
                   /\ game[p].since + ShotDt > ShootCooldown
                   /\ game'[p].since = 0
             /\ \A in \in ShootInputs : ~in.fire => NoneCreated(game[p], in)
      ]_vars

\* A tick within the cooldown has followed the tick of a shot: the one
\* projectile has advanced twice and the clock of the cooldown runs on.
C25_Witness ==
    /\ game[Shooter].since = ShotDt
    /\ Len(game[Shooter].player.Bullets) = 1
    /\ game[Shooter].player.Bullets[1].Y = SpawnY + 2 * BulletSpeed

\* ---------------------------------------------------------------- obstacles
\* Game.Update called on its own, on a game whose obstacle list is the one
\* NewObstacles builds, the local player within Near of the point next to
\* the upper left corner of the first obstacle, any of the four keys held.
NewObstacles ==
    << [X |-> 200, Y |-> 150, Width |-> 100, Height |-> 200],
       [X |-> 500, Y |-> 300, Width |-> 150, Height |-> 100] >>

Near == 4

PlayerRadius == 10

AllKeys == [W : BOOLEAN, S : BOOLEAN, A : BOOLEAN, D : BOOLEAN]

InitMove ==
    /\ Started({})
    /\ \E x \in (190 - Near)..(190 + Near), y \in (150 - Near)..(150 + Near), keys \in AllKeys :
          call = Call("Update", <<x, y, keys>>)

\* The game the call is made on: the local player at the place given.
GameAt(x, y) ==
    [NewGame(Shooter) EXCEPT !.player = NewPlayer(Shooter, x, y)]

CallUpdate ==
    /\ call.fn = "Update"
    /\ ~call.done
    /\ Return(MoveAmong(GameAt(call.in[1], call.in[2]),
                        [keys |-> call.in[3], aim |-> 0, fire |-> FALSE, recoil |-> 0,
                         dt |-> ShotDt],
                        NewObstacles).g.player)

SpecMove == InitMove /\ [][CallUpdate]_vars

\* C26: a local player that overlaps no obstacle before a tick overlaps none
\* after it.
C26_KeepsOut ==
    (/\ call.fn = "Update"
     /\ call.done
     /\ ~collidesWithObstacles(call.in[1], call.in[2], PlayerRadius, NewObstacles))
        => ~collidesWithObstacles(call.out.X, call.out.Y, PlayerRadius, NewObstacles)

\* --------------------------------------------------------------- trajectory
\* Shoot followed by n calls of Bullet.Update, for a player at (0,0) facing
\* one of the four axis directions, with each recoil the tables know.
MaxFlight == 10

FlightAngles == {0, 90, 180, 270}

Recoils == {0, 2, 0 - 2}

InitFlight ==
    /\ Started({})
    /\ \E a \in FlightAngles, r \in Recoils, n \in 0..MaxFlight :
          call = Call("Flight", <<a, r, n>>)

RECURSIVE Flight(_, _)
Flight(b, n) == IF n = 0 THEN b ELSE Flight(BulletUpdate(b), n - 1)

CallFlight ==
    /\ call.fn = "Flight"
    /\ ~call.done
    /\ Return(Flight(Shoot([NewPlayer(Shooter, 0, 0) EXCEPT !.Angle = call.in[1]],
                           call.in[2]),
                     call.in[3]))

SpecFlight == InitFlight /\ [][CallFlight]_vars

FlightDir == (call.in[1] + call.in[2] + 360) % 360

\* C27, as stated: the bullet of a player at (0,0) facing angle 0 is at
\* (N * speed, 0) after N updates.
C27_StraightFlight ==
    (call.fn = "Flight" /\ call.done /\ call.in[1] = 0)
        => (call.out.X = call.in[3] * BulletSpeed /\ call.out.Y = 0)

\* C27: after N updates the bullet of a player at (0,0) is at N times the
\* velocity vector of the direction it was created with (the player's angle
\* plus the recoil drawn at creation); direction and speed are unchanged,
\* and the end point stays one velocity vector ahead.
C27_Trajectory ==
    (call.fn = "Flight" /\ call.done)
        => /\ call.out.X = call.in[3] * Cos80(FlightDir)
           /\ call.out.Y = call.in[3] * Sin80(FlightDir)
           /\ call.out.EndX = call.out.X + Cos80(FlightDir)
           /\ call.out.EndY = call.out.Y + Sin80(FlightDir)
           /\ call.out.Direction = FlightDir
           /\ call.out.Velocity = BulletSpeed

\* A bullet fired at angle 0 with a recoil, after at least two updates.
C27_Witness ==
    /\ call.fn = "Flight"
    /\ call.done
    /\ call.in[1] = 0
    /\ call.in[2] # 0
    /\ call.in[3] >= 2
    /\ call.out.Y # 0

\* ---------------------------------------------------------------- edge order
\* The edge loop of hit detection called on its own: one target, one bullet
\* of the local player fired upwards or to the left, with or without recoil,
\* from a place within EdgeNear of the lower right corner of the hitbox.
EdgeNear == 5

EdgeOffsets == (0 - EdgeNear)..EdgeNear

EdgeAngles == {178, 180, 182, 268, 270, 272}

Target == NewPlayer("p2", 600, 300)

InitEdges ==
    /\ Started({})
    /\ \E i, j \in EdgeOffsets, dir \in EdgeAngles :
          call = Call("HitEdges", <<(SpriteDx \div 8) + i, (SpriteDy \div 8) + j, dir>>)

\* The bullet of the call: fired without recoil, not yet advanced.
EdgeBullet ==
    Shoot([NewPlayer(Shooter, Target.X + call.in[1], Target.Y + call.in[2])
              EXCEPT !.Angle = call.in[3]], 0)

CallHitEdges ==
    /\ call.fn = "HitEdges"
    /\ ~call.done
    /\ Return(HitEdges(Target, EdgeBullet))

SpecEdges == InitEdges /\ [][CallHitEdges]_vars

\* Four times the squared distance from the midpoint of wall l to the
\* position of bullet b (the comparison the sort of the edges makes).
MidDistance(l, b) ==
    (l.X1 + l.X2 - 2 * b.X) * (l.X1 + l.X2 - 2 * b.X)
        + (l.Y1 + l.Y2 - 2 * b.Y) * (l.Y1 + l.Y2 - 2 * b.Y)

\* C28: the first intersecting edge that hit detection finds is the one
\* nearest to the bullet, by midpoint, among the intersecting edges.
C28_NearestFirst ==
    (call.fn = "HitEdges" /\ call.done /\ call.out # <<>>)
        => \A k \in Crossed(HitBox(Target).Walls, BulletLine(EdgeBullet)) :
              MidDistance(HitBox(Target).Walls[call.out[1]], EdgeBullet)
                  <= MidDistance(HitBox(Target).Walls[k], EdgeBullet)

\* ------------------------------------------------------------------ Points
\* Object.Points: the second endpoint of every wall, then the start of the
\* first wall when both of its coordinates differ from the last one taken.
Points(o) ==
    LET points == [k \in 1..Len(o.Walls) |-> << o.Walls[k].X2, o.Walls[k].Y2 >>]
        p      == << o.Walls[1].X1, o.Walls[1].Y1 >>
    IN  IF p[1] # points[Len(points)][1] /\ p[2] # points[Len(points)][2]
        THEN Append(points, p)
        ELSE points

\* Objects Points is called on: chains of one or two walls through points
\* of a small grid, and rectangles on that grid.
PtMax == 2

Grid == (0..PtMax) \X (0..PtMax)

Chain(ps) == [Walls |-> [k \in 1..(Len(ps) - 1) |->
                            Line(ps[k][1], ps[k][2], ps[k + 1][1], ps[k + 1][2])]]

Shapes ==
    { Chain(<<a, b>>) : a, b \in Grid }
        \cup { Chain(<<a, b, c>>) : a, b, c \in Grid }
        \cup { [Walls |-> Rect(a[1], a[2], w, h)] : a \in Grid, w, h \in 1..PtMax }

InitPoints ==
    /\ Started({})
    /\ \E o \in Shapes : call = Call("Points", o)

CallPoints ==
    /\ call.fn = "Points"
    /\ ~call.done
    /\ Return(Points(call.in))

SpecPoints == InitPoints /\ [][CallPoints]_vars

\* The start of the first wall and the end of the last one.
ChainStart(o) == << o.Walls[1].X1, o.Walls[1].Y1 >>

ChainEnd(o) == << o.Walls[Len(o.Walls)].X2, o.Walls[Len(o.Walls)].Y2 >>

\* C29: Points returns the second endpoint of every wall in order, followed
\* by the start of the first wall exactly when that start differs from the
\* last vertex taken; so n + 1 vertices for an open chain of n walls.
C29_Points ==
    (call.fn = "Points" /\ call.done)
        => /\ \A k \in 1..Len(call.in.Walls) :
                 call.out[k] = << call.in.Walls[k].X2, call.in.Walls[k].Y2 >>
           /\ Len(call.out) = Len(call.in.Walls)
                                + (IF ChainStart(call.in) # ChainEnd(call.in) THEN 1 ELSE 0)
           /\ ChainStart(call.in) # ChainEnd(call.in)
                 => call.out[Len(call.out)] = ChainStart(call.in)

\* ----------------------------------------------------------------- castRays
\* The part of castRays that runs for one probe ray, called on its own.
\* Coordinates of intersection points are fractions over the denominator
\* Intersection divides by.
PointOf(l1, r) ==
    [ xn |-> l1.X1 * r.denom + r.tNum * (l1.X2 - l1.X1),
      yn |-> l1.Y1 * r.denom + r.tNum * (l1.Y2 - l1.Y1),
      d  |-> r.denom ]

RECURSIVE AllWalls(_, _)
AllWalls(objects, k) ==
    IF k > Len(objects) THEN <<>> ELSE objects[k].Walls \o AllWalls(objects, k + 1)

\* The intersection points of ray with the walls from index k on, in order.
RECURSIVE Hits(_, _, _)
Hits(ray, walls, k) ==
    IF k > Len(walls) THEN <<>>
    ELSE (IF Intersection(ray, walls[k]).ok
          THEN << PointOf(ray, Intersection(ray, walls[k])) >>
          ELSE <<>>) \o Hits(ray, walls, k + 1)

\* d2 of point p from (cx, cy), a fraction; math.Inf(1) is the fraction 1/0.
SquaredDistance(cx, cy, p) ==
    [ n |-> (cx * p.d - p.xn) * (cx * p.d - p.xn) + (cy * p.d - p.yn) * (cy * p.d - p.yn),
      d |-> p.d * p.d ]

Inf == [n |-> 1, d |-> 0]

\* A comparison that prefers the farther point.
Farther(a, b) == a.n * b.d > b.n * a.d

\* d2 < min
Closer(a, b) == a.n * b.d < b.n * a.d

\* The loop over points from index i on: min and minI so far.
RECURSIVE MinIndex(_, _, _, _, _, _)
MinIndex(cx, cy, points, i, min, minI) ==
    IF i > Len(points) THEN minI
    ELSE IF Closer(SquaredDistance(cx, cy, points[i]), min)
         THEN MinIndex(cx, cy, points, i + 1, SquaredDistance(cx, cy, points[i]), i)
         ELSE MinIndex(cx, cy, points, i + 1, min, minI)

\* What a read past the end of points gives: the run-time panic "index
\* out of range", told from a point by its denominator 0.
OutOfRange == [xn |-> 0, yn |-> 0, d |-> 0]

\* A variant of Nearest without the test of minI: points[minI] whatever the
\* length of points.
NearestUnchecked(cx, cy, points, minI) ==
    IF minI \in DOMAIN points
    THEN << [X1 |-> cx, Y1 |-> cy, P |-> points[minI]] >>
    ELSE << [X1 |-> cx, Y1 |-> cy, P |-> OutOfRange] >>

\* The segments one probe ray adds to rays.
Nearest(cx, cy, points, minI) ==
    IF minI <= Len(points)
    THEN << [X1 |-> cx, Y1 |-> cy, P |-> points[minI]] >>
    ELSE <<>>

RayContribution(cx, cy, ray, objects) ==
    Nearest(cx, cy, Hits(ray, AllWalls(objects, 1), 1),
            MinIndex(cx, cy, Hits(ray, AllWalls(objects, 1), 1), 1, Inf, 1))

\* A scene like the one main builds: a border and a box inside it.
RayMax == 4

RayReach == 5

Objects ==
    << [Walls |-> Rect(0, 0, RayMax, RayMax)],
       [Walls |-> Rect(1, 1, 2, 1)] >>

RayDirs == (((0 - 2)..2) \X ((0 - 2)..2)) \ {<<0, 0>>}

InitRays ==
    /\ Started({})
    /\ \E cx, cy \in 0..RayMax, dir \in RayDirs :
          call = Call("castRays", <<cx, cy, dir[1], dir[2]>>)

ProbeRay ==
    Line(call.in[1], call.in[2],
         call.in[1] + RayReach * call.in[3], call.in[2] + RayReach * call.in[4])

CallCastRays ==
    /\ call.fn = "castRays"
    /\ ~call.done
    /\ Return(RayContribution(call.in[1], call.in[2], ProbeRay, Objects))

SpecRays == InitRays /\ [][CallCastRays]_vars

\* The set of points at which the probe ray meets a wall of any object.
Meets ==
    { PointOf(ProbeRay, Intersection(ProbeRay, Objects[o].Walls[w])) :
        <<o, w>> \in { ow \in (1..Len(Objects)) \X (1..4) :
                          Intersection(ProbeRay, Objects[ow[1]].Walls[ow[2]]).ok } }

\* C30: a probe ray that meets at least one wall contributes exactly one
\* segment, from the viewpoint to a meeting point that no other meeting
\* point of the ray, with any wall of any object, is nearer than.
C30_NearestHit ==
    (call.fn = "castRays" /\ call.done /\ Meets # {})
        => /\ Len(call.out) = 1
           /\ call.out[1].X1 = call.in[1]
           /\ call.out[1].Y1 = call.in[2]
           /\ call.out[1].P \in Meets
           /\ \A q \in Meets :
                 ~Closer(SquaredDistance(call.in[1], call.in[2], q),
                         SquaredDistance(call.in[1], call.in[2], call.out[1].P))

\* A ray has met walls at different distances, the first wall in the
\* order of the walls not being the nearest.
C30_Witness ==
    /\ call.fn = "castRays"
    /\ call.done
    /\ Len(call.out) = 1
    /\ Hits(ProbeRay, AllWalls(Objects, 1), 1)[1] # call.out[1].P
    /\ Closer(SquaredDistance(call.in[1], call.in[2], call.out[1].P),
              SquaredDistance(call.in[1], call.in[2], Hits(ProbeRay, AllWalls(Objects, 1), 1)[1]))

\* --------------------------------------------------------- castRays and Draw
\* castRays as a whole and the triangle loop of Draw.  NewRay(cx, cy,
\* rayLength, angle + offset) is the vector to the vertex turned by
\* atan(1/Tilt) to either side and stretched by sqrt(Tilt * Tilt + 1); the
\* angle of a zero vector is 0, as atan2(0, 0) is.
Tilt == 2

ProbeTo(cx, cy, p, offset) ==
    LET dx == IF p = <<cx, cy>> THEN 1 ELSE p[1] - cx
        dy == IF p = <<cx, cy>> THEN 0 ELSE p[2] - cy
    IN  Line(cx, cy, cx + Tilt * dx - offset * dy, cy + Tilt * dy + offset * dx)

RECURSIVE Vertices(_, _)
Vertices(objects, k) ==
    IF k > Len(objects) THEN <<>> ELSE Points(objects[k]) \o Vertices(objects, k + 1)

\* Two probe rays per vertex, offset -0.001 first.
Probes(cx, cy, verts) ==
    [i \in 1..(2 * Len(verts)) |->
        ProbeTo(cx, cy, verts[(i + 1) \div 2], IF i % 2 = 1 THEN 0 - 1 ELSE 1)]

RECURSIVE Cast(_, _, _, _, _)
Cast(cx, cy, probes, objects, k) ==
    IF k > Len(probes) THEN <<>>
    ELSE RayContribution(cx, cy, probes[k], objects) \o Cast(cx, cy, probes, objects, k + 1)

\* Line.Angle of a contributed segment, as the vector it is the atan2 of
\* (scaled by a positive factor).
Sign(n) == IF n < 0 THEN 0 - 1 ELSE 1

Heading(ray) ==
    << Sign(ray.P.d) * (ray.P.xn - ray.X1 * ray.P.d),
       Sign(ray.P.d) * (ray.P.yn - ray.Y1 * ray.P.d) >>

\* The quarter of (-pi, pi] atan2 puts v in: below the x axis, on its
\* positive half (or the zero vector), above it, on its negative half.
Half(v) ==
    IF v[2] < 0 THEN 0 ELSE IF v[2] > 0 THEN 2 ELSE IF v[1] >= 0 THEN 1 ELSE 3

\* rays[i].Angle() < rays[j].Angle()
AngleLess(a, b) ==
    \/ Half(Heading(a)) < Half(Heading(b))
    \/ /\ Half(Heading(a)) = Half(Heading(b))
       /\ Heading(a)[1] * Heading(b)[2] - Heading(a)[2] * Heading(b)[1] > 0

\* sort.Slice is not stable: segments of equal angle keep their order
\* (rev = FALSE) or swap it (rev = TRUE).
RECURSIVE Insert(_, _, _)
Insert(sorted, ray, rev) ==
    IF sorted = <<>> THEN << ray >>
    ELSE IF AngleLess(ray, Head(sorted)) \/ (rev /\ ~AngleLess(Head(sorted), ray))
         THEN << ray >> \o sorted
         ELSE << Head(sorted) >> \o Insert(Tail(sorted), ray, rev)

RECURSIVE SortByAngle(_, _)
SortByAngle(rays, rev) ==
    IF rays = <<>> THEN <<>>
    ELSE Insert(SortByAngle(Tail(rays), rev), Head(rays), rev)

castRays(cx, cy, objects, rev) ==
    SortByAngle(Cast(cx, cy, Probes(cx, cy, Vertices(objects, 1)), objects, 1), rev)

\* The triangle loop of Draw: for ray i the index of nextLine (from 1).
NextLine(rays) == [i \in 1..Len(rays) |-> (i % Len(rays)) + 1]

\* Scenes: the border with the box, the box alone, one slanted wall, none.
Scenes ==
    << Objects,
       << Objects[2] >>,
       << Chain(<< <<1, 1>>, <<3, 2>> >>) >>,
       << >> >>

InitCast ==
    /\ Started({})
    /\ \E cx, cy \in 0..RayMax, s \in 1..Len(Scenes) :
          call = Call("Draw", <<cx, cy, s>>)

Lit(rays) == [rays |-> rays, next |-> NextLine(rays)]

CallDraw ==
    /\ call.fn = "Draw"
    /\ ~call.done
    /\ \E rev \in BOOLEAN :
          Return(Lit(castRays(call.in[1], call.in[2], Scenes[call.in[3]], rev)))

SpecCast == InitCast /\ [][CallDraw]_vars

\* The probe rays of the call, and those of them that meet a wall.
CastProbes == Probes(call.in[1], call.in[2], Vertices(Scenes[call.in[3]], 1))

Meeting ==
    { k \in DOMAIN CastProbes :
        \E w \in DOMAIN AllWalls(Scenes[call.in[3]], 1) :
            Intersection(CastProbes[k], AllWalls(Scenes[call.in[3]], 1)[w]).ok }

\* C31: a probe ray that meets no wall contributes no segment and no
\* fault: castRays returns one segment for each probe ray that meets a
\* wall, at most two per vertex, none of them read from past the end of the
\* intersection list, and the triangle loop of Draw reads rays only at
\* indexes that exist.
C31_EmptyRaysDropped ==
    (call.fn = "Draw" /\ call.done)
        => /\ Len(call.out.rays) = Cardinality(Meeting)
           /\ Len(call.out.rays) <= 2 * Len(Vertices(Scenes[call.in[3]], 1))
           /\ \A i \in DOMAIN call.out.rays : call.out.rays[i].P # OutOfRange
           /\ DOMAIN call.out.next = DOMAIN call.out.rays
           /\ \A i \in DOMAIN call.out.next : call.out.next[i] \in DOMAIN call.out.rays

\* castRays was called on a scene where one probe ray meets a wall and
\* another meets none.
C31_Witness ==
    /\ call.fn = "Draw"
    /\ call.done
    /\ Meeting # {}
    /\ Meeting # DOMAIN CastProbes
    /\ Len(call.out.rays) >= 1

\* castRays was called on a scene where no probe ray meets a wall.
C31_NoRays ==
    /\ call.fn = "Draw"
    /\ call.done
    /\ CastProbes # <<>>
    /\ call.out.rays = <<>>

\* ------------------------------------------------------ the listener's lock
\* The listener step by step: between g.mu.Lock() and g.mu.Unlock() the
\* inbox of p holds the frame wrapped in Holding.
Holding(frame) == [type |-> "holding", frame |-> frame]

ListenerHolds(p) == "frame" \in DOMAIN inbox[p]

\* A frame read and not yet dealt with.
Unmerged(p) == inbox[p] \notin {NoFrame, Gone} /\ ~ListenerHolds(p)

\* The paths that go back to the read without the lock: a line or a
\* payload that does not decode, an unknown type, an update of the local id.
ListenPass(p) ==
    /\ Unmerged(p)
    /\ ~TakesLock(p, inbox[p])
    /\ inbox' = [inbox EXCEPT ![p] = NoFrame]
    /\ last' = Step("pass", p, inbox[p], NoFrame)
    /\ UNCHANGED <<game, pending, toRelay, toClient, clients, rmsg, rmu, rleft, draw, call>>

\* g.mu.Lock(): waits while the tick of p holds the mutex.
ListenLock(p) ==
    /\ Unmerged(p)
    /\ TakesLock(p, inbox[p])
    /\ pending[p] = <<>>
    /\ inbox' = [inbox EXCEPT ![p] = Holding(inbox[p])]
    /\ UNCHANGED <<game, pending, toRelay, toClient, clients, rmsg, rmu, rleft, last, draw, call>>

\* A listener that goes back to the read with the mutex still locked when
\* a hit names a victim it has no record of.
ListenUnlockKnown(p) ==
    /\ ListenerHolds(p)
    /\ game' = [game EXCEPT ![p] = Merge(@, inbox[p].frame)]
    /\ inbox' = [inbox EXCEPT ![p] =
                    IF /\ inbox[p].frame.type = "player_hit"
                       /\ inbox[p].frame.data.victim_id \notin DOMAIN game[p].players
                    THEN Holding(NoFrame) ELSE NoFrame]
    /\ last' = Step("unlock", p, inbox[p].frame, NoFrame)
    /\ UNCHANGED <<pending, toRelay, toClient, clients, rmsg, rmu, rleft, draw, call>>

\* The merge and g.mu.Unlock().
ListenUnlock(p) ==
    /\ ListenerHolds(p)
    /\ game' = [game EXCEPT ![p] = Merge(@, inbox[p].frame)]
    /\ inbox' = [inbox EXCEPT ![p] = NoFrame]
    /\ last' = Step("unlock", p, inbox[p].frame, NoFrame)
    /\ UNCHANGED <<pending, toRelay, toClient, clients, rmsg, rmu, rleft, draw, call>>

\* g.mu.Lock() of Game.Update waits while the listener holds the mutex.
TickLocked(p) ==
    /\ ~ListenerHolds(p)
    /\ Tick(p, Inputs({NoKeys}, {0}, {FALSE}, {0}, {250}), NetBullets)

\* Frames of every path: the ones that do not decode, an update of the
\* local id, an update of p2, a hit on p2 and a hit on the unknown p3.
LockFrames ==
    BadFrames \cup { UpdateOf(Shooter, 10, 20, 90, 30, <<>>), UpdateOf("p2", 10, 20, 90, 30, <<>>),
                     PlayerHit("p2", HitDamage), PlayerHit("p3", HitDamage) }

NextLock ==
    \/ TickLocked(Shooter)
    \/ TickWrite(Shooter)
    \/ RelayRead(Shooter)
    \/ RelayLock(Shooter)
    \/ ~Ready /\ \E f \in LockFrames : Inject(Shooter, f)
    \/ ListenRead(Shooter)
    \/ ListenPass(Shooter)
    \/ ListenLock(Shooter)
    \/ ListenUnlock(Shooter)

SpecLock == InitWith({Shooter}) /\ [][NextLock]_vars

\* C32: the listener holds the game mutex only with a decoded frame whose
\* merge takes it, never at the read and never together with the tick; and
\* after each frame it has dealt with, whether merged or passed over, it
\* is back at the read without the mutex.
C32_LockOnlyForMerge ==
    \A p \in Peers :
        /\ ListenerHolds(p) =>
              /\ inbox[p].frame # NoFrame
              /\ Decodes(inbox[p].frame)
              /\ TakesLock(p, inbox[p].frame)
              /\ pending[p] = <<>>
        /\ inbox[p] = NoFrame => ~ListenerHolds(p)
        /\ (last.op \in {"pass", "unlock"} /\ last.peer = p /\ ~Unmerged(p))
              => (ListenerHolds(p) => inbox[p].frame # NoFrame)

\* The listener has merged a hit on a victim it has no record of and is
\* back at the read while the tick holds the mutex.
C32_Witness ==
    /\ last.op = "unlock"
    /\ last.frame = PlayerHit("p3", HitDamage)
    /\ "p3" \notin DOMAIN game[Shooter].players
    /\ inbox[Shooter] = NoFrame
    /\ pending[Shooter] # <<>>

\* ------------------------------------------------------------------ deadlock
\* The relay's reader of q holds the relay's mutex and is blocked writing
\* to p, whose buffer is full.
RelayBlockedOn(q, p) ==
    rmu = q /\ p \in rleft /\ ~Broken(p) /\ Len(toClient[p]) >= MaxQueue

\* The listener of p has a frame to merge and waits for g.mu, which the
\* tick of p holds.
ListenerWaits(p) ==
    inbox[p] \notin {NoFrame, Gone} /\ TakesLock(p, inbox[p]) /\ pending[p] # <<>>

\* The tick of p holds g.mu and is blocked writing to the relay, whose
\* reader of p holds a frame and cannot take the relay's mutex.
TickBlocked(p) ==
    /\ pending[p] # <<>>
    /\ ~Broken(p)
    /\ Len(toRelay[p]) >= MaxQueue
    /\ rmsg[p] \notin {NoFrame, Eof, Gone}
    /\ rmu \notin {"none", p}

\* C33: no reachable state has a relay reader holding the relay mutex
\* while blocked writing to a client whose listener waits for the game
\* mutex held by that client's tick, itself blocked writing to the relay.
C33_NoDeadlock ==
    \A p, q \in Peers :
        ~(q # p /\ RelayBlockedOn(q, p) /\ ListenerWaits(p) /\ TickBlocked(p))

\* ------------------------------------------------------------ a shot's path
\* A game with one remote record, Target, and the local player at (x, y):
\* MaxFlight ticks of Game.Update, the fire button held in the first only.
OneTarget(x, y) ==
    [NewGame(Shooter) EXCEPT !.player = NewPlayer(Shooter, x, y),
                             !.players = [id \in {Target.ID} |-> Target]]

Pull(aim, recoil, fire) ==
    [keys |-> NoKeys, aim |-> aim, fire |-> fire, recoil |-> recoil, dt |-> ShotDt]

\* One tick, the map iterated in the one order a single record allows.
Ticked(g, in) ==
    GameUpdate(g, in, CHOOSE order \in Orders(MovePlayer(g, in).g) : TRUE).g

RECURSIVE Fly(_, _, _, _, _)
Fly(g, aim, recoil, fire, n) ==
    IF n = 0 THEN g
    ELSE Fly(Ticked(g, Pull(aim, recoil, fire)), aim, recoil, FALSE, n - 1)

Aims == {180, 270}

InitShot ==
    /\ Started({})
    /\ \E i, j \in EdgeOffsets, aim \in Aims, recoil \in Recoils :
          call = Call("Shot", <<Target.X + (SpriteDx \div 8) + i,
                                Target.Y + (SpriteDy \div 8) + j, aim, recoil>>)

CallShot ==
    /\ call.fn = "Shot"
    /\ ~call.done
    /\ Return(Fly(OneTarget(call.in[1], call.in[2]), call.in[3], call.in[4], TRUE, MaxFlight))

SpecShot == InitShot /\ [][CallShot]_vars

\* The part of the trajectory of the call's shot that lies k to k + 1
\* velocity vectors from the firing position.
Stretch(k) ==
    Line(call.in[1] + k * Cos80(call.in[3] + call.in[4]),
         call.in[2] + k * Sin80(call.in[3] + call.in[4]),
         call.in[1] + (k + 1) * Cos80(call.in[3] + call.in[4]),
         call.in[2] + (k + 1) * Sin80(call.in[3] + call.in[4]))

\* C34: a stationary target whose hitbox lies on the trajectory of a shot,
\* at any distance from the firing position, is hit.
C34_PathCovered ==
    (/\ call.fn = "Shot"
     /\ call.done
     /\ \E k \in 0..(MaxFlight - 1) : Crossed(HitBox(Target).Walls, Stretch(k)) # {})
        => call.out.players[Target.ID].Health < MaxHealth

\* ------------------------------------------------------- a downed shooter
\* One client that fires south or holds its fire; from outside reach it a
\* hit that takes all of its health, a hit on p2, and an update that puts
\* p2 where the upper edge of its hitbox lies across a bullet one tick old.
DownedInputs == Inputs({NoKeys}, {90}, BOOLEAN, {0}, {250})

TickDowned(p) == Tick(p, DownedInputs, MaxBullets)

DownedFrames ==
    { PlayerHit(Shooter, MaxHealth), PlayerHit("p2", HitDamage),
      UpdateOf("p2", SpawnX, SpawnY + 2 * BulletSpeed + (SpriteDy \div 8) - 40, 0, MaxHealth, <<>>) }

NextDowned ==
    \/ ~Ready /\ TickDowned(Shooter)
    \/ ~Ready /\ \E f \in DownedFrames : Inject(Shooter, f)
    \/ ~Ready /\ RelayRead(Shooter)
    \/ TickWrite(Shooter)
    \/ RelayLock(Shooter)
    \/ ListenRead(Shooter)
    \/ ListenMerge(Shooter) /\ ObserveMerge(Shooter)

SpecDowned == InitWith({Shooter}) /\ [][NextDowned]_vars

\* C35: the tick of a client whose local player is downed emits no
\* player_hit.
C35_DownedHarmless ==
    \A p \in Peers :
        game[p].player.Health <= 0
            => \A k \in DOMAIN pending[p] : pending[p][k].type # "player_hit"

\* C36: the health of the local player changes only in the step in which
\* the listener merges a player_hit whose victim_id is the local id; no
\* tick changes it.
C36_HealthByOwnHitOnly ==
    [][\A p \in Peers :
          game'[p].player.Health # game[p].player.Health
              => /\ Decodes(inbox[p])
                 /\ inbox[p].type = "player_hit"
                 /\ inbox[p].data.victim_id = game[p].player.ID
                 /\ inbox'[p] = NoFrame
                 /\ pending[p] = <<>>
                 /\ pending'[p] = <<>>]_vars

\* The local player has lost its health to a hit on it, and its tick has
\* since damaged p2 and holds the player_hit it has still to write.
C36_Witness ==
    /\ game[Shooter].player.Health = 0
    /\ pending[Shooter] # <<>>
    /\ Head(pending[Shooter]) = PlayerHit("p2", HitDamage)
    /\ game[Shooter].players["p2"].Health < MaxHealth

\* ------------------------------------------------- four clients, one relay
\* "111" and "p2" stand still and send their updates; "p3" and "p4" only
\* listen.  `last` keeps, for every client, the ids of the senders of the
\* frames it has merged, in the order of the merges.
MaxLog == 2

Four == Conns \cup {"p4"}

InitOrder ==
    /\ game = [p \in Four |-> NewGame(p)]
    /\ pending = [p \in Four |-> <<>>]
    /\ inbox = [p \in Four |-> NoFrame]
    /\ toRelay = [p \in Four |-> <<>>]
    /\ toClient = [p \in Four |-> <<>>]
    /\ clients = Four
    /\ rmsg = [p \in Four |-> NoFrame]
    /\ rmu = "none"
    /\ rleft = {}
    /\ last = [p \in Four |-> <<>>]
    /\ draw = [p \in Four |-> "idle"]
    /\ call = NoCall

\* A tick of a sender whose last frame the relay has taken.
TickOrder(p) ==
    /\ toRelay[p] = <<>>
    /\ rmsg[p] = NoFrame
    /\ \A c \in Four : Len(last[c]) < MaxLog
    /\ Tick(p, Inputs({NoKeys}, {0}, {FALSE}, {0}, {250}), NetBullets)

ObserveOrder(p) == last' = [last EXCEPT ![p] = Append(@, inbox[p].data.id)]

NextOrder ==
    \/ \E p \in Peers : TickOrder(p)
    \/ \E p \in Peers : TickWrite(p)
    \/ \E p \in Peers : RelayRead(p)
    \/ \E p \in Peers : RelayLock(p)
    \/ \E p \in Peers, c \in Four : RelayWrite(p, c)
    \/ \E p \in Four : ListenRead(p)
    \/ \E p \in Four : ListenMerge(p) /\ ObserveOrder(p)

SpecOrder == InitOrder /\ [][NextOrder]_vars

\* The senders of the frames c has merged, those of c and d left out:
\* the frames both c and d are sent.
Shared(c, d) == SelectSeq(last[c], LAMBDA s : s \notin {c, d})

IsPrefix(s, t) == Len(s) <= Len(t) /\ \A i \in 1..Len(s) : s[i] = t[i]

\* C37: any two clients get the frames that both are sent in the same
\* order: of the two sequences one is the beginning of the other.
C37_SameOrder ==
    \A c, d \in Four :
        IsPrefix(Shared(c, d), Shared(d, c)) \/ IsPrefix(Shared(d, c), Shared(c, d))

\* Both listeners have merged a frame of "p2" and then a frame of "111",
\* and "111" has merged the frame of "p2" too.
C37_Witness ==
    /\ Len(last["p3"]) >= 2
    /\ Len(last["p4"]) >= 2
    /\ last["p3"][1] = "p2" /\ last["p3"][2] = "111"
    /\ last["p4"][1] = "p2" /\ last["p4"][2] = "111"
    /\ last["111"] # <<>>

\* C38: what a tick's hit detection does is the same whatever the order in
\* which the map of remote records is iterated: the game and the frames a
\* tick leaves are those of every iteration order.
C38_OrderFree ==
    [][TickStep(Shooter) =>
          \E in \in HitInputs :
              \A order \in Orders(MovePlayer(game[Shooter], in).g) :
                  /\ game'[Shooter] = GameUpdate(game[Shooter], in, order).g
                  /\ pending'[Shooter] = GameUpdate(game[Shooter], in, order).out]_vars

\* ---------------------------------------------------------------------
\* The frame-counted projectile variant: a projectile keeps the position it
\* was fired from and counts the ticks it has lived.
\* ---------------------------------------------------------------------

\* The count a projectile is fired with, and the count past which it expires.
ShotFrames == 10

FrameLimit == 15

\* The most projectiles of one player in the checked lists.
MaxFramed == 3

\* Shoot of the variant: a projectile at the player's position.
ShootFramed(bullets, x, y) == Append(bullets, [X |-> x, Y |-> y, Frames |-> ShotFrames])

\* Bullet.Update of the variant: only the count advances.
BulletUpdateFramed(b) == [b EXCEPT !.Frames = @ + 1]

\* The expiry loop of Player.Update from index i (counted from 1) down to the
\* first projectile.  The second test indexes the list again after the first
\* one may have shortened it; fault tells that the index was out of range.
RECURSIVE ExpireFrom(_, _)
ExpireFrom(bullets, i) ==
    IF i = 0 THEN [bullets |-> bullets, fault |-> FALSE]
    ELSE LET aged == [bullets EXCEPT ![i] = BulletUpdateFramed(@)]
             kept == IF OutOfBounds(aged[i], 1600, 900) THEN RemoveAt(aged, i) ELSE aged
         IN  IF i > Len(kept) THEN [bullets |-> kept, fault |-> TRUE]
             ELSE ExpireFrom(IF kept[i].Frames > FrameLimit THEN RemoveAt(kept, i) ELSE kept,
                             i - 1)

ExpireFramed(bullets) == ExpireFrom(bullets, Len(bullets))

\* Where the player stood when firing: left of, on and right of the field.
FiredFrom == {0 - 5, 800, 1605}

\* The lists Shoot and the loop can leave: at most one shot per tick, the
\* oldest first, every count between the initial one and the limit.
FramedLists ==
    { s \in UNION { [1..n -> [X : FiredFrom, Y : {450}, Frames : ShotFrames..FrameLimit]] :
                        n \in 0..MaxFramed } :
        \A k \in 1..(Len(s) - 1) : s[k].Frames > s[k + 1].Frames }

InitFramed ==
    /\ Started({})
    /\ \E s \in FramedLists : \E fire \in BOOLEAN : \E x \in FiredFrom :
           call = Call("Update", IF fire /\ Len(s) < MaxFramed /\ (s = <<>> \/ s[Len(s)].Frames > ShotFrames)
                                 THEN ShootFramed(s, x, 450) ELSE s)

CallFramed ==
    /\ call.fn = "Update"
    /\ ~call.done
    /\ Return(ExpireFramed(call.in))

SpecFramed == InitFramed /\ [][CallFramed]_vars

\* The projectiles of the list, one tick older, that are inside the field and
\* not past the frame limit.
RECURSIVE Unexpired(_)
Unexpired(bullets) ==
    IF bullets = <<>> THEN <<>>
    ELSE LET b == BulletUpdateFramed(Head(bullets))
         IN  IF OutOfBounds(b, 1600, 900) \/ b.Frames > FrameLimit
             THEN Unexpired(Tail(bullets))
             ELSE <<b>> \o Unexpired(Tail(bullets))

\* C39: the expiry loop of the frame-counted variant never indexes the list
\* out of range and leaves exactly the projectiles that are inside the field
\* and within the frame limit.
C39_ExpiryExact ==
    (call.fn = "Update" /\ call.done) =>
        /\ ~call.out.fault
        /\ call.out.bullets = Unexpired(call.in)
====
